---- MODULE Spec2Model ----
(***************************************************************************)
(* Model of the ark-serde-compat codec: canonical decimal-string parsing   *)
(* of prime-field elements, field and point encode/decode, and the         *)
(* dispatch between the human-readable and the compressed binary format.   *)
(*                                                                         *)
(* A Rust String is modelled as a sequence of one-character strings; a     *)
(* prime field F as the integers modulo Modulus; a serde wire value as a   *)
(* tagged record (str, bytes or seq).  The fields and curves are small     *)
(* stand-ins for the type parameters F, Q, G1, G2 of the generic code.     *)
(***************************************************************************)
EXTENDS Integers, Sequences, FiniteSets, TLC

(* ---------------------------- bounds ----------------------------------- *)
\* longest wire string handed to the field parser
MaxLen == 3
\* longest sequence of field elements that is encoded and decoded again
MaxSeq == 2

(* ------------------------- type parameters ----------------------------- *)
\* F::MODULUS of the prime field the codec is instantiated with
Modulus == 7
\* characteristic of the scalar field, the order of the prime-order subgroup
ScalarModulus == 3

\* value: the value handed to an encoder; wire: the encoded form; human: the
\* format's is_human_readable(); call: the last entry point called; ret: the
\* result of the decode; out: the wire form of the decoded value encoded again
VARIABLES value, wire, human, call, ret, out

vars == <<value, wire, human, call, ret, out>>

(* ----------------------------- results --------------------------------- *)
Ok(v) == [tag |-> "Ok", val |-> v]
Err(m) == [tag |-> "Err", msg |-> m]
Pending == [tag |-> "Pending"]
Panic == [tag |-> "Panic"]
NoValue == [t |-> "none"]
NoWire == [t |-> "none"]

IsOk(r) == r.tag = "Ok"
IsErr(r, m) == r.tag = "Err" /\ r.msg = m
\* the `?` operator: continue with the value of r, or return r if it is an error
Try(r, F(_)) == IF IsOk(r) THEN F(r.val) ELSE r
\* Result::map_err(|_| m)
map_err(r, m) == IF IsOk(r) THEN r ELSE Err(m)

(* SerdeCompatError messages of parse_field_str_inner *)
LeadingPlusSign == "invalid leading + sign for number"
NegativeRejected == "only expects positive numbers"
InvalidDigits == "only expects digits 0-9 for numbers"
InvalidData == "invalid data"
NonCanonicalZero == "zero must be serialized as '0'"
LeadingZero == "invalid leading zeros for number"
LeadingZeroNegative == "invalid leading zeros for negative number"
OutOfRange == "doesn't fit into field"
CannotSerialize == "cannot canonical serialize element"
SerializationError == "ark-serialize error"
\* serde: an element of the wire is not of the type next_element asks for
InvalidType == "invalid type"

(* ----------------------------- strings --------------------------------- *)
Digits == {"0", "1", "2", "3", "4", "5", "6", "7", "8", "9"}
Alphabet == Digits \cup {"-", "+", "x", " "}

DigitVal(c) ==
  CASE c = "0" -> 0 [] c = "1" -> 1 [] c = "2" -> 2 [] c = "3" -> 3
    [] c = "4" -> 4 [] c = "5" -> 5 [] c = "6" -> 6 [] c = "7" -> 7
    [] c = "8" -> 8 [] c = "9" -> 9

DigitChar(d) ==
  CASE d = 0 -> "0" [] d = 1 -> "1" [] d = 2 -> "2" [] d = 3 -> "3"
    [] d = 4 -> "4" [] d = 5 -> "5" [] d = 6 -> "6" [] d = 7 -> "7"
    [] d = 8 -> "8" [] d = 9 -> "9"

StringsUpTo(n) == UNION {[1..k -> Alphabet] : k \in 0..n}

\* str::starts_with for a one-character pattern
StartsWithChar(v, c) == Len(v) >= 1 /\ v[1] = c
\* str::starts_with for a pattern given as a sequence of characters
StartsWith(v, pat) == Len(v) >= Len(pat) /\ SubSeq(v, 1, Len(pat)) = pat
\* v.strip_prefix('-').unwrap_or(v)
StripMinus(v) == IF StartsWithChar(v, "-") THEN Tail(v) ELSE v
\* v.chars().any(|x| !x.is_ascii_digit())
AnyNonDigit(v) == \E i \in 1..Len(v) : v[i] \notin Digits

RECURSIVE DigitsValue(_)
DigitsValue(v) ==
  IF Len(v) = 0 THEN 0
  ELSE 10 * DigitsValue(SubSeq(v, 1, Len(v) - 1)) + DigitVal(v[Len(v)])

\* num_bigint::BigUint::from_str: one optional '+', then at least one digit
BigUintFromStr(v) ==
  LET s == IF StartsWithChar(v, "+") /\ ~StartsWithChar(Tail(v), "+")
           THEN Tail(v) ELSE v
  IN IF Len(s) = 0 \/ AnyNonDigit(s) THEN Err(InvalidData)
     ELSE Ok(DigitsValue(s))

\* num_bigint::BigInt::from_str: one optional '-', then a BigUint
BigIntFromStr(v) ==
  LET neg == StartsWithChar(v, "-") /\ ~StartsWithChar(Tail(v), "+")
      mag == BigUintFromStr(IF neg THEN Tail(v) ELSE v)
  IN IF ~IsOk(mag) THEN mag
     ELSE Ok(IF neg THEN 0 - mag.val ELSE mag.val)

\* the decimal digits of a natural number, most significant first
RECURSIVE NatToString(_)
NatToString(n) ==
  IF n < 10 THEN <<DigitChar(n)>>
  ELSE Append(NatToString(n \div 10), DigitChar(n % 10))

\* variant of to_string: the digits with every leading '0' trimmed
to_string_trimmed(f) == IF f = 0 THEN <<>> ELSE NatToString(f)

\* Display of a prime field element: the decimal string of its canonical value
to_string(f) == NatToString(f)

(* ------------------------ canonical integer parser --------------------- *)
\* BigUint::try_from(number).expect(..) and F::from_bigint(number).expect(..)
FromBigint(number) ==
  IF number < 0 \/ number >= Modulus THEN Panic ELSE Ok(number)

\* variant of SignAndDigitChecks: the digits-only check runs before the '-' check
SignAndDigitChecks_digits_first(UNSIGNED, v) ==
  IF StartsWithChar(v, "+") THEN Err(LeadingPlusSign)
  ELSE IF UNSIGNED /\ AnyNonDigit(v) THEN Err(InvalidDigits)
  ELSE IF UNSIGNED /\ StartsWithChar(v, "-") THEN Err(NegativeRejected)
  ELSE IF ~UNSIGNED /\ AnyNonDigit(StripMinus(v)) THEN Err(InvalidDigits)
  ELSE Ok(v)

\* variant of SignAndDigitChecks: a leading '+' is left to the later checks
SignAndDigitChecks_no_plus(UNSIGNED, v) ==
  IF UNSIGNED /\ StartsWithChar(v, "-") THEN Err(NegativeRejected)
  ELSE IF UNSIGNED /\ AnyNonDigit(v) THEN Err(InvalidDigits)
  ELSE IF ~UNSIGNED /\ AnyNonDigit(StripMinus(v)) THEN Err(InvalidDigits)
  ELSE Ok(v)

\* variant of SignAndDigitChecks: signed mode leaves the digits to the integer parser
SignAndDigitChecks_unsigned_digits_only(UNSIGNED, v) ==
  IF StartsWithChar(v, "+") THEN Err(LeadingPlusSign)
  ELSE IF UNSIGNED /\ StartsWithChar(v, "-") THEN Err(NegativeRejected)
  ELSE IF UNSIGNED /\ AnyNonDigit(v) THEN Err(InvalidDigits)
  ELSE Ok(v)

\* the '+' check, the unsigned '-' check and the digits-only check
SignAndDigitChecks(UNSIGNED, v) ==
  IF StartsWithChar(v, "+") THEN Err(LeadingPlusSign)
  ELSE IF UNSIGNED /\ StartsWithChar(v, "-") THEN Err(NegativeRejected)
  ELSE IF UNSIGNED /\ AnyNonDigit(v) THEN Err(InvalidDigits)
  ELSE IF ~UNSIGNED /\ AnyNonDigit(StripMinus(v)) THEN Err(InvalidDigits)
  ELSE Ok(v)

\* variant of CanonicalFormChecks: leading zeros of a nonzero number pass
CanonicalFormChecks_no_leading_zero(v, number) ==
  IF number = 0 /\ v # <<"0">> THEN Err(NonCanonicalZero)
  ELSE Ok(number)

\* variant of CanonicalFormChecks: any spelling of zero passes
CanonicalFormChecks_any_zero(v, number) ==
  IF StartsWithChar(v, "0") /\ number # 0 THEN Err(LeadingZero)
  ELSE Ok(number)

\* variant of CanonicalFormChecks: the leading-zero check ignores the value
CanonicalFormChecks_leading_first(v, number) ==
  IF StartsWithChar(v, "0") THEN Err(LeadingZero)
  ELSE IF number = 0 /\ v # <<"0">> THEN Err(NonCanonicalZero)
  ELSE Ok(number)

\* zero must be exactly "0"; a nonzero number has no leading zero
CanonicalFormChecks(v, number) ==
  IF number = 0 /\ v # <<"0">> THEN Err(NonCanonicalZero)
  ELSE IF StartsWithChar(v, "0") /\ number # 0 THEN Err(LeadingZero)
  ELSE Ok(number)

\* variant of SignedNegative: the sign is dropped instead of adding the modulus
SignedNegative_abs(v, number) ==
  IF number # 0 /\ StartsWith(v, <<"-", "0">>) THEN Err(LeadingZeroNegative)
  ELSE IF number + Modulus < 0 THEN Err(OutOfRange)
  ELSE Ok(0 - number)

\* variant of SignedNegative: a sum of zero is rejected too
SignedNegative_reject_zero(v, number) ==
  IF number # 0 /\ StartsWith(v, <<"-", "0">>) THEN Err(LeadingZeroNegative)
  ELSE IF number + Modulus <= 0 THEN Err(OutOfRange)
  ELSE Ok(number + Modulus)

\* variant of SignedNegative: the number is reduced modulo p, never rejected
SignedNegative_reduce(v, number) ==
  IF number # 0 /\ StartsWith(v, <<"-", "0">>) THEN Err(LeadingZeroNegative)
  ELSE Ok(number % Modulus)

\* variant of SignedNegative: leading zeros after the sign pass
SignedNegative_no_leading_zero(v, number) ==
  IF number + Modulus < 0 THEN Err(OutOfRange)
  ELSE Ok(number + Modulus)

\* a negative number in signed mode: add the modulus, reject if still negative
SignedNegative(v, number) ==
  IF number # 0 /\ StartsWith(v, <<"-", "0">>) THEN Err(LeadingZeroNegative)
  ELSE IF number + Modulus < 0 THEN Err(OutOfRange)
  ELSE Ok(number + Modulus)

\* variant of NonNegative: the modulus itself passes the range check
NonNegative_off_by_one(UNSIGNED, number) ==
  IF UNSIGNED /\ number < 0 THEN Err(NegativeRejected)
  ELSE IF Modulus < number THEN Err(OutOfRange)
  ELSE Ok(number)

\* a number that is not handled by the signed negative branch
NonNegative(UNSIGNED, number) ==
  IF UNSIGNED /\ number < 0 THEN Err(NegativeRejected)
  ELSE IF Modulus <= number THEN Err(OutOfRange)
  ELSE Ok(number)

\* variant of RangeChecks: a negative number takes the branch of the others
RangeChecks_no_signed_branch(UNSIGNED, v, number) == NonNegative(UNSIGNED, number)

RangeChecks(UNSIGNED, v, number) ==
  IF ~UNSIGNED /\ number < 0 THEN SignedNegative(v, number)
  ELSE NonNegative(UNSIGNED, number)

\* variant of parse_field_str_inner: a failure of the integer parser is
\* reported as a digits error
parse_field_str_inner_digits_error(UNSIGNED, v) ==
  LET pre == SignAndDigitChecks(UNSIGNED, v) IN
  IF ~IsOk(pre) THEN pre
  ELSE
    LET parsed == BigIntFromStr(v) IN
    IF ~IsOk(parsed) THEN Err(InvalidDigits)
    ELSE
      LET canon == CanonicalFormChecks(v, parsed.val) IN
      IF ~IsOk(canon) THEN canon
      ELSE
        LET ranged == RangeChecks(UNSIGNED, v, parsed.val) IN
        IF ~IsOk(ranged) THEN ranged ELSE FromBigint(ranged.val)

parse_field_str_inner(UNSIGNED, v) ==
  LET pre == SignAndDigitChecks(UNSIGNED, v) IN
  IF ~IsOk(pre) THEN pre
  ELSE
    LET parsed == BigIntFromStr(v) IN
    IF ~IsOk(parsed) THEN Err(InvalidData)
    ELSE
      LET canon == CanonicalFormChecks(v, parsed.val) IN
      IF ~IsOk(canon) THEN canon
      ELSE
        LET ranged == RangeChecks(UNSIGNED, v, parsed.val) IN
        IF ~IsOk(ranged) THEN ranged ELSE FromBigint(ranged.val)

\* variant of parse_field_str_inner_unsigned: the signed convention is applied
parse_field_str_inner_unsigned_signed(v) == parse_field_str_inner(FALSE, v)

parse_field_str_inner_unsigned(v) == parse_field_str_inner(TRUE, v)

(* ------------------------ compressed binary format --------------------- *)
\* number of bytes of a compressed field element
RECURSIVE ByteSizeOf(_)
ByteSizeOf(n) == IF n < 256 THEN 1 ELSE 1 + ByteSizeOf(n \div 256)

serialized_size == ByteSizeOf(Modulus - 1)

\* little-endian bytes of n, exactly k of them
RECURSIVE ToBytesLE(_, _)
ToBytesLE(n, k) ==
  IF k = 0 THEN <<>> ELSE <<n % 256>> \o ToBytesLE(n \div 256, k - 1)

RECURSIVE FromBytesLE(_)
FromBytesLE(b) ==
  IF Len(b) = 0 THEN 0 ELSE b[1] + 256 * FromBytesLE(Tail(b))

\* CanonicalSerialize::serialize_compressed of a field element
serialize_compressed(f) == ToBytesLE(f, serialized_size)

\* CanonicalDeserialize::deserialize_compressed of a field element
deserialize_compressed(b) ==
  IF Len(b) < serialized_size THEN Err(SerializationError)
  ELSE
    LET n == FromBytesLE(SubSeq(b, 1, serialized_size)) IN
    IF n >= Modulus THEN Err(SerializationError) ELSE Ok(n)

\* serialize_compressed of a slice: a u64 length, then the elements
RECURSIVE ConcatCompressed(_)
ConcatCompressed(ps) ==
  IF Len(ps) = 0 THEN <<>>
  ELSE serialize_compressed(Head(ps)) \o ConcatCompressed(Tail(ps))

serialize_compressed_seq(ps) == ToBytesLE(Len(ps), 8) \o ConcatCompressed(ps)

RECURSIVE ReadCompressed(_, _)
ReadCompressed(b, n) ==
  IF n = 0 THEN Ok(<<>>)
  ELSE
    LET head == deserialize_compressed(b) IN
    IF ~IsOk(head) THEN head
    ELSE
      LET rest == ReadCompressed(SubSeq(b, serialized_size + 1, Len(b)), n - 1) IN
      IF ~IsOk(rest) THEN rest ELSE Ok(<<head.val>> \o rest.val)

deserialize_compressed_seq(b) ==
  IF Len(b) < 8 THEN Err(SerializationError)
  ELSE ReadCompressed(SubSeq(b, 9, Len(b)), FromBytesLE(SubSeq(b, 1, 8)))

(* ----------------------------- wire values ----------------------------- *)
Str(s) == [t |-> "str", s |-> s]
Bytes(b) == [t |-> "bytes", b |-> b]
SeqOf(e) == [t |-> "seq", e |-> e]
\* arrays of strings, a G1 triple and a G2 triple of pairs
StrArray(strs) == SeqOf([i \in 1..Len(strs) |-> Str(strs[i])])
G1Wire(x, y, z) == StrArray(<<x, y, z>>)
G2Wire(x, y, z) == SeqOf(<<StrArray(x), StrArray(y), StrArray(z)>>)

\* for p in ps { seq.serialize_element(&p.to_string()) }
RECURSIVE StringsOf(_)
StringsOf(ps) ==
  IF Len(ps) = 0 THEN <<>> ELSE <<Str(to_string(Head(ps)))>> \o StringsOf(Tail(ps))

(* ----------------------------- field codec ----------------------------- *)
serialize_f(p, is_human_readable) ==
  IF is_human_readable THEN Str(to_string(p))
  ELSE Bytes(serialize_compressed(p))

serialize_f_seq(ps, is_human_readable) ==
  IF is_human_readable THEN SeqOf(StringsOf(ps))
  ELSE Bytes(serialize_compressed_seq(ps))

\* PrimeFieldVisitor::visit_str and visit_bytes
PrimeFieldVisitor(UNSIGNED, w) ==
  IF w.t = "str" THEN parse_field_str_inner(UNSIGNED, w.s)
  ELSE deserialize_compressed(w.b)

\* variant of PrimeFieldSeqVisitSeq: an element that fails to parse is skipped
RECURSIVE PrimeFieldSeqVisitSeq_skip_failed(_, _, _)
PrimeFieldSeqVisitSeq_skip_failed(UNSIGNED, e, values) ==
  IF Len(e) = 0 THEN Ok(values)
  ELSE IF Head(e).t # "str" THEN Err(InvalidType)
  ELSE
    LET r == parse_field_str_inner(UNSIGNED, Head(e).s) IN
    PrimeFieldSeqVisitSeq_skip_failed(UNSIGNED, Tail(e),
                                      IF IsOk(r) THEN Append(values, r.val) ELSE values)

\* PrimeFieldSeqVisitor::visit_seq: push parsed elements until one fails
RECURSIVE PrimeFieldSeqVisitSeq(_, _, _)
PrimeFieldSeqVisitSeq(UNSIGNED, e, values) ==
  IF Len(e) = 0 THEN Ok(values)
  ELSE IF Head(e).t # "str" THEN Err(InvalidType)
  ELSE
    LET r == parse_field_str_inner(UNSIGNED, Head(e).s) IN
    IF ~IsOk(r) THEN r
    ELSE PrimeFieldSeqVisitSeq(UNSIGNED, Tail(e), Append(values, r.val))

PrimeFieldSeqVisitor(UNSIGNED, w) ==
  IF w.t = "seq" THEN PrimeFieldSeqVisitSeq(UNSIGNED, w.e, <<>>)
  ELSE deserialize_compressed_seq(w.b)

deserialize_f(w) == PrimeFieldVisitor(TRUE, w)
deserialize_f_signed(w) == PrimeFieldVisitor(FALSE, w)
deserialize_f_seq(w) == PrimeFieldSeqVisitor(TRUE, w)
deserialize_f_seq_signed(w) == PrimeFieldSeqVisitor(FALSE, w)

(* ------------------- the field codec as a state machine ---------------- *)
FieldElements == 0..(Modulus - 1)
FieldSeqs == UNION {[1..k -> FieldElements] : k \in 0..MaxSeq}
FVal(f) == [t |-> "f", v |-> f]
FSeqVal(fs) == [t |-> "fseq", v |-> fs]

\* either a wire string to decode, or a value to encode and decode again
InitField ==
  /\ call = "none"
  /\ ret = Pending
  /\ out = NoWire
  /\ \/ /\ value = NoValue
        /\ human = TRUE
        /\ wire \in {Str(s) : s \in StringsUpTo(MaxLen)}
     \/ /\ value \in {FVal(f) : f \in FieldElements}
        /\ human \in BOOLEAN
        /\ wire = NoWire
     \/ /\ value \in {FSeqVal(fs) : fs \in FieldSeqs}
        /\ human \in BOOLEAN
        /\ wire = NoWire

SerializeF ==
  /\ value.t = "f" /\ wire = NoWire
  /\ wire' = serialize_f(value.v, human)
  /\ call' = "serialize_f"
  /\ UNCHANGED <<value, human, ret, out>>

SerializeFSeq ==
  /\ value.t = "fseq" /\ wire = NoWire
  /\ wire' = serialize_f_seq(value.v, human)
  /\ call' = "serialize_f_seq"
  /\ UNCHANGED <<value, human, ret, out>>

ScalarWire == wire.t = "str" \/ (wire.t = "bytes" /\ value.t = "f")
SeqWire == wire.t = "seq" \/ (wire.t = "bytes" /\ value.t = "fseq")

DeserializeF ==
  /\ ret = Pending /\ ScalarWire
  /\ ret' = deserialize_f(wire)
  /\ call' = "deserialize_f"
  /\ UNCHANGED <<value, wire, human, out>>

DeserializeFSigned ==
  /\ ret = Pending /\ ScalarWire
  /\ ret' = deserialize_f_signed(wire)
  /\ call' = "deserialize_f_signed"
  /\ UNCHANGED <<value, wire, human, out>>

DeserializeFSeq ==
  /\ ret = Pending /\ SeqWire
  /\ ret' = deserialize_f_seq(wire)
  /\ call' = "deserialize_f_seq"
  /\ UNCHANGED <<value, wire, human, out>>

DeserializeFSeqSigned ==
  /\ ret = Pending /\ SeqWire
  /\ ret' = deserialize_f_seq_signed(wire)
  /\ call' = "deserialize_f_seq_signed"
  /\ UNCHANGED <<value, wire, human, out>>

NextField ==
  \/ SerializeF
  \/ SerializeFSeq
  \/ DeserializeF
  \/ DeserializeFSigned
  \/ DeserializeFSeq
  \/ DeserializeFSeqSigned

SpecField == InitField /\ [][NextField]_vars

(* --------------------------- field arithmetic -------------------------- *)
(* An element of the base field of a curve is the tuple of its coefficients *)
(* over the prime field: one coefficient for F, two (c0, c1) for the        *)
(* quadratic extension QuadExtField<Q>, in which u * u = NONRESIDUE.        *)
NONRESIDUE == Modulus - 1

Zero(d) == [i \in 1..d |-> 0]
One(d) == [i \in 1..d |-> IF i = 1 THEN 1 ELSE 0]

FAdd(a, b) == [i \in 1..Len(a) |-> (a[i] + b[i]) % Modulus]
FNeg(a) == [i \in 1..Len(a) |-> (Modulus - a[i]) % Modulus]
FSub(a, b) == FAdd(a, FNeg(b))
FMul(a, b) ==
  IF Len(a) = 1 THEN <<(a[1] * b[1]) % Modulus>>
  ELSE <<(a[1] * b[1] + NONRESIDUE * a[2] * b[2]) % Modulus,
         (a[1] * b[2] + a[2] * b[1]) % Modulus>>
FSquare(a) == FMul(a, a)
FpInv(n) == CHOOSE m \in 1..(Modulus - 1) : (n * m) % Modulus = 1
\* the inverse of a nonzero element
FInv(a) ==
  IF Len(a) = 1 THEN <<FpInv(a[1])>>
  ELSE
    LET norm == (a[1] * a[1] + (Modulus - NONRESIDUE) * a[2] * a[2]) % Modulus
        ninv == FpInv(norm)
    IN <<(a[1] * ninv) % Modulus, ((Modulus - a[2]) * ninv) % Modulus>>

(* ------------------------------- curves -------------------------------- *)
\* SWCurveConfig of G1: y^2 = x^3 + COEFF_A x + COEFF_B over F
G1Config == [COEFF_A |-> <<0>>, COEFF_B |-> <<1>>]
\* SWCurveConfig of G2: the same equation over QuadExtField<Q>
G2Config == [COEFF_A |-> <<0, 0>>, COEFF_B |-> <<0, 3>>]

Degree(cfg) == Len(cfg.COEFF_B)

\* Affine<P>: the coordinates and the infinity flag
Affine(x, y) == [x |-> x, y |-> y, infinity |-> FALSE]
identity(cfg) == [x |-> Zero(Degree(cfg)), y |-> Zero(Degree(cfg)), infinity |-> TRUE]
is_zero(p) == p.infinity

\* Projective::new_unchecked(x, y, z).into_affine(): Jacobian coordinates
into_affine(cfg, x, y, z) ==
  IF z = Zero(Degree(cfg)) THEN identity(cfg)
  ELSE IF z = One(Degree(cfg)) THEN Affine(x, y)
  ELSE
    LET zinv == FInv(z)
        zinv_squared == FSquare(zinv)
    IN Affine(FMul(x, zinv_squared), FMul(y, FMul(zinv_squared, zinv)))

is_on_curve(cfg, p) ==
  IF ~p.infinity
  THEN FSquare(p.y) = FAdd(FAdd(FMul(FSquare(p.x), p.x), FMul(cfg.COEFF_A, p.x)), cfg.COEFF_B)
  ELSE TRUE

\* the group law on affine points
PointDouble(cfg, p) ==
  IF p.infinity \/ p.y = Zero(Degree(cfg)) THEN identity(cfg)
  ELSE
    LET three_x2 == FAdd(FSquare(p.x), FAdd(FSquare(p.x), FSquare(p.x)))
        lambda == FMul(FAdd(three_x2, cfg.COEFF_A), FInv(FAdd(p.y, p.y)))
        x3 == FSub(FSquare(lambda), FAdd(p.x, p.x))
    IN Affine(x3, FSub(FMul(lambda, FSub(p.x, x3)), p.y))

PointAdd(cfg, p, q) ==
  IF p.infinity THEN q
  ELSE IF q.infinity THEN p
  ELSE IF p.x = q.x THEN (IF p.y = q.y THEN PointDouble(cfg, p) ELSE identity(cfg))
  ELSE
    LET lambda == FMul(FSub(q.y, p.y), FInv(FSub(q.x, p.x)))
        x3 == FSub(FSub(FSquare(lambda), p.x), q.x)
    IN Affine(x3, FSub(FMul(lambda, FSub(p.x, x3)), p.y))

RECURSIVE mul_bigint(_, _, _)
mul_bigint(cfg, p, k) ==
  IF k = 0 THEN identity(cfg) ELSE PointAdd(cfg, mul_bigint(cfg, p, k - 1), p)

\* the default subgroup test: the scalar field characteristic annihilates p
is_in_correct_subgroup_assuming_on_curve(cfg, p) ==
  is_zero(mul_bigint(cfg, p, ScalarModulus))

\* the result of a point decode, with the library tests it has evaluated
OkAfter(p, checks) == [tag |-> "Ok", val |-> p, checks |-> checks]
ErrAfter(m, checks) == [tag |-> "Err", msg |-> m, checks |-> checks]
CurveTest == "is_on_curve"
SubgroupTest == "is_in_correct_subgroup_assuming_on_curve"

(* SWFlags of the compressed encoding of a point *)
YIsNegative == 128
PointAtInfinity == 64
YIsPositive == 0

\* Ord of field elements: QuadExtField compares c1 first, then c0
FLeq(a, b) ==
  IF Len(a) = 1 THEN a[1] <= b[1]
  ELSE a[2] < b[2] \/ (a[2] = b[2] /\ a[1] <= b[1])

to_flags(p) ==
  IF p.infinity THEN PointAtInfinity
  ELSE IF FLeq(p.y, FNeg(p.y)) THEN YIsPositive
  ELSE YIsNegative

\* serialize_with_flags of a field element: the flags go to the last byte
serialize_with_flags(a, flags) ==
  LET last == ToBytesLE(a[Len(a)], serialized_size)
      flagged == [last EXCEPT ![serialized_size] = @ + flags]
  IN IF Len(a) = 1 THEN flagged ELSE ToBytesLE(a[1], serialized_size) \o flagged

\* CanonicalSerialize::serialize_compressed of an affine point
point_serialize_compressed(cfg, p) ==
  serialize_with_flags(IF p.infinity THEN Zero(Degree(cfg)) ELSE p.x, to_flags(p))

\* Affine::get_ys_from_x_unchecked: the square roots of x^3 + a x + b
get_ys_from_x_unchecked(cfg, x) ==
  LET rhs == FAdd(FAdd(FMul(FSquare(x), x), FMul(cfg.COEFF_A, x)), cfg.COEFF_B)
      field == IF Degree(cfg) = 1 THEN {<<a>> : a \in 0..(Modulus - 1)}
               ELSE {<<a, b>> : a \in 0..(Modulus - 1), b \in 0..(Modulus - 1)}
  IN {y \in field : FSquare(y) = rhs}

\* CanonicalDeserialize::deserialize_compressed (VALIDATE) and
\* deserialize_compressed_unchecked of an affine point: x and the flags are
\* read, y is the smaller root for YIsPositive and the larger for YIsNegative,
\* and the validation tests the curve and the subgroup
point_deserialize_compressed(VALIDATE, cfg, b) ==
  LET n == Degree(cfg) * serialized_size IN
  IF Len(b) < n THEN Err(SerializationError)
  ELSE
    LET flags == (b[n] \div 64) * 64
        plain == [b EXCEPT ![n] = @ % 64]
        x == [i \in 1..Degree(cfg) |->
                FromBytesLE(SubSeq(plain, (i - 1) * serialized_size + 1, i * serialized_size))]
        ys == get_ys_from_x_unchecked(cfg, x)
    IN
    IF flags = YIsNegative + PointAtInfinity THEN Err(SerializationError)
    ELSE IF \E i \in 1..Degree(cfg) : x[i] >= Modulus THEN Err(SerializationError)
    ELSE IF flags = PointAtInfinity
      THEN OkAfter(identity(cfg), IF VALIDATE THEN <<CurveTest, SubgroupTest>> ELSE <<>>)
    ELSE IF ys = {} THEN Err(SerializationError)
    ELSE
      LET smaller == CHOOSE y \in ys : \A z \in ys : FLeq(y, z)
          p == Affine(x, IF flags = YIsPositive THEN smaller ELSE FNeg(smaller))
      IN
      IF ~VALIDATE THEN OkAfter(p, <<>>)
      ELSE IF ~(is_on_curve(cfg, p) /\ is_in_correct_subgroup_assuming_on_curve(cfg, p))
      THEN ErrAfter(SerializationError, <<CurveTest, SubgroupTest>>)
      ELSE OkAfter(p, <<CurveTest, SubgroupTest>>)

(* ----------------------------- point codec ----------------------------- *)
G1NotOnCurve == "not con curve"
G1NotInSubgroup == "not in correct subgroup"
G2NotOnCurve == "not on curve"
G2NotInSubgroup == "not on correct subgroup"
G1MissingX == "expected G1 projective coordinates but x coordinate missing."
G1MissingY == "expected G1 projective coordinates but y coordinate missing."
G1MissingZ == "expected G1 projective coordinates but z coordinate missing."
G2MissingX == "expected G1 projective coordinates but x coordinate missing."
G2MissingY == "expected G2 projective coordinates but y coordinate missing."
G2MissingZ == "expected G2 projective coordinates but z coordinate missing."
InvalidLength4 == "invalid length 4"
G2ArityX == "x coordinates need two field elements for G2, but got "
G2ArityY == "y coordinates need two field elements for G2, but got "
G2ArityZ == "z coordinates need two field elements for G2, but got "

\* the first failing parse of a list of coordinate strings, or all the values
RECURSIVE ParseAllUnsigned(_)
ParseAllUnsigned(strs) ==
  IF Len(strs) = 0 THEN Ok(<<>>)
  ELSE
    Try(parse_field_str_inner_unsigned(Head(strs)), LAMBDA head :
      Try(ParseAllUnsigned(Tail(strs)), LAMBDA rest : Ok(<<head>> \o rest)))

\* variant of ValidatePoint: only the curve equation is tested
ValidatePoint_no_subgroup(CHECK, cfg, p, notOnCurve, notInSubgroup) ==
  IF is_zero(p) THEN OkAfter(p, <<>>)
  ELSE IF ~CHECK THEN OkAfter(p, <<>>)
  ELSE IF ~is_on_curve(cfg, p) THEN ErrAfter(notOnCurve, <<CurveTest>>)
  ELSE OkAfter(p, <<CurveTest>>)

\* variant of ValidatePoint: the identity is returned after the curve test
ValidatePoint_curve_first(CHECK, cfg, p, notOnCurve, notInSubgroup) ==
  IF ~CHECK THEN OkAfter(p, <<>>)
  ELSE IF ~is_on_curve(cfg, p) THEN ErrAfter(notOnCurve, <<CurveTest>>)
  ELSE IF is_zero(p) THEN OkAfter(p, <<CurveTest>>)
  ELSE IF ~is_in_correct_subgroup_assuming_on_curve(cfg, p)
    THEN ErrAfter(notInSubgroup, <<CurveTest, SubgroupTest>>)
  ELSE OkAfter(p, <<CurveTest, SubgroupTest>>)

\* the checks shared by g1_from_strings_projective and g2_from_strings_projective:
\* the identity is returned at once, and `CHECK && ..` evaluates a test only
\* when CHECK is set
ValidatePoint(CHECK, cfg, p, notOnCurve, notInSubgroup) ==
  IF is_zero(p) THEN OkAfter(p, <<>>)
  ELSE IF ~CHECK THEN OkAfter(p, <<>>)
  ELSE IF ~is_on_curve(cfg, p) THEN ErrAfter(notOnCurve, <<CurveTest>>)
  ELSE IF ~is_in_correct_subgroup_assuming_on_curve(cfg, p)
    THEN ErrAfter(notInSubgroup, <<CurveTest, SubgroupTest>>)
  ELSE OkAfter(p, <<CurveTest, SubgroupTest>>)

g1_from_strings_projective(CHECK, x, y, z) ==
  Try(ParseAllUnsigned(<<x, y, z>>), LAMBDA c :
    ValidatePoint(CHECK, G1Config, into_affine(G1Config, <<c[1]>>, <<c[2]>>, <<c[3]>>),
                  G1NotOnCurve, G1NotInSubgroup))

g2_from_strings_projective(CHECK, x0, x1, y0, y1, z0, z1) ==
  Try(ParseAllUnsigned(<<x0, x1, y0, y1, z0, z1>>), LAMBDA c :
    ValidatePoint(CHECK, G2Config,
                  into_affine(G2Config, <<c[1], c[2]>>, <<c[3], c[4]>>, <<c[5], c[6]>>),
                  G2NotOnCurve, G2NotInSubgroup))

\* variant of G1Visitor: elements after the third are ignored
G1Visitor_ignore_trailing(CHECK, w) ==
  LET e == w.e IN
  IF Len(e) < 1 THEN Err(G1MissingX)
  ELSE IF e[1].t # "str" THEN Err(InvalidType)
  ELSE IF Len(e) < 2 THEN Err(G1MissingY)
  ELSE IF e[2].t # "str" THEN Err(InvalidType)
  ELSE IF Len(e) < 3 THEN Err(G1MissingZ)
  ELSE IF e[3].t # "str" THEN Err(InvalidType)
  ELSE g1_from_strings_projective(CHECK, e[1].s, e[2].s, e[3].s)

\* G1Visitor::visit_seq over the elements of the wire array
G1Visitor(CHECK, w) ==
  LET e == w.e IN
  IF Len(e) < 1 THEN Err(G1MissingX)
  ELSE IF e[1].t # "str" THEN Err(InvalidType)
  ELSE IF Len(e) < 2 THEN Err(G1MissingY)
  ELSE IF e[2].t # "str" THEN Err(InvalidType)
  ELSE IF Len(e) < 3 THEN Err(G1MissingZ)
  ELSE IF e[3].t # "str" THEN Err(InvalidType)
  ELSE IF Len(e) >= 4 THEN (IF e[4].t # "str" THEN Err(InvalidType) ELSE Err(InvalidLength4))
  ELSE g1_from_strings_projective(CHECK, e[1].s, e[2].s, e[3].s)

\* a Vec<String> element: an array whose elements are all strings
IsVecString(w) == w.t = "seq" /\ \A i \in 1..Len(w.e) : w.e[i].t = "str"

\* variant of G2Visitor: the arity error reports the expected length
G2Visitor_expected_length(CHECK, w) ==
  LET e == w.e IN
  IF Len(e) < 1 THEN Err(G2MissingX)
  ELSE IF ~IsVecString(e[1]) THEN Err(InvalidType)
  ELSE IF Len(e) < 2 THEN Err(G2MissingY)
  ELSE IF ~IsVecString(e[2]) THEN Err(InvalidType)
  ELSE IF Len(e) < 3 THEN Err(G2MissingZ)
  ELSE IF ~IsVecString(e[3]) THEN Err(InvalidType)
  ELSE IF Len(e) >= 4 THEN (IF e[4].t # "str" THEN Err(InvalidType) ELSE Err(InvalidLength4))
  ELSE IF Len(e[1].e) # 2 THEN Err(G2ArityX \o ToString(2))
  ELSE IF Len(e[2].e) # 2 THEN Err(G2ArityY \o ToString(2))
  ELSE IF Len(e[3].e) # 2 THEN Err(G2ArityZ \o ToString(2))
  ELSE g2_from_strings_projective(CHECK, e[1].e[1].s, e[1].e[2].s, e[2].e[1].s,
                                  e[2].e[2].s, e[3].e[1].s, e[3].e[2].s)

\* G2Visitor::visit_seq over the elements of the wire array
G2Visitor(CHECK, w) ==
  LET e == w.e IN
  IF Len(e) < 1 THEN Err(G2MissingX)
  ELSE IF ~IsVecString(e[1]) THEN Err(InvalidType)
  ELSE IF Len(e) < 2 THEN Err(G2MissingY)
  ELSE IF ~IsVecString(e[2]) THEN Err(InvalidType)
  ELSE IF Len(e) < 3 THEN Err(G2MissingZ)
  ELSE IF ~IsVecString(e[3]) THEN Err(InvalidType)
  ELSE IF Len(e) >= 4 THEN (IF e[4].t # "str" THEN Err(InvalidType) ELSE Err(InvalidLength4))
  ELSE IF Len(e[1].e) # 2 THEN Err(G2ArityX \o ToString(Len(e[1].e)))
  ELSE IF Len(e[2].e) # 2 THEN Err(G2ArityY \o ToString(Len(e[2].e)))
  ELSE IF Len(e[3].e) # 2 THEN Err(G2ArityZ \o ToString(Len(e[3].e)))
  ELSE g2_from_strings_projective(CHECK, e[1].e[1].s, e[1].e[2].s, e[2].e[1].s,
                                  e[2].e[2].s, e[3].e[1].s, e[3].e[2].s)

\* G1Visitor::visit_bytes and G2Visitor::visit_bytes
G1VisitBytes(CHECK, b) == point_deserialize_compressed(CHECK, G1Config, b)
G2VisitBytes(CHECK, b) == point_deserialize_compressed(CHECK, G2Config, b)

\* the format calls visit_seq for an array and visit_bytes for a byte string
deserialize_g1(w) ==
  IF w.t = "bytes" THEN G1VisitBytes(TRUE, w.b) ELSE G1Visitor(TRUE, w)
deserialize_g1_unchecked(w) ==
  IF w.t = "bytes" THEN G1VisitBytes(FALSE, w.b) ELSE G1Visitor(FALSE, w)
deserialize_g2(w) ==
  IF w.t = "bytes" THEN G2VisitBytes(TRUE, w.b) ELSE G2Visitor(TRUE, w)
deserialize_g2_unchecked(w) ==
  IF w.t = "bytes" THEN G2VisitBytes(FALSE, w.b) ELSE G2Visitor(FALSE, w)

(* SerdeCompatError and serde messages of the GT and G1 sequence decoders *)
GtMissing == "expected elements target group in {} as sequence of sequences"
GtNeedThree == "need three elements for cubic extension field in {}"
ExpectedCubic == "expected cubic extension field"
ExpectedQuadratic == "expected quadratic extension field"
G1SeqInvalidPoint == "Invalid projective point on G1."
\* de::Error::invalid_length(len, &self)
InvalidLength(len) == "invalid length " \o ToString(len)

\* a Vec<Vec<String>> element
IsVecVecString(w) == w.t = "seq" /\ \A i \in 1..Len(w.e) : IsVecString(w.e[i])

\* strings: the elements of a Vec<String>
quadratic_extension_field_from_vec(strings) ==
  IF Len(strings) # 2 THEN Err(ExpectedQuadratic)
  ELSE ParseAllUnsigned(<<strings[1].s, strings[2].s>>)

\* strings: the elements of a Vec<Vec<String>>
cubic_extension_field_from_vec(strings) ==
  IF Len(strings) # 3 THEN Err(ExpectedCubic)
  ELSE
    Try(quadratic_extension_field_from_vec(strings[1].e), LAMBDA c0 :
      Try(quadratic_extension_field_from_vec(strings[2].e), LAMBDA c1 :
        Try(quadratic_extension_field_from_vec(strings[3].e), LAMBDA c2 :
          Ok(<<c0, c1, c2>>))))

\* GtVisitor::visit_seq over the elements of the wire array
GtVisitor(w) ==
  LET e == w.e IN
  IF Len(e) < 1 THEN Err(GtMissing)
  ELSE IF ~IsVecVecString(e[1]) THEN Err(InvalidType)
  ELSE IF Len(e) < 2 THEN Err(GtMissing)
  ELSE IF ~IsVecVecString(e[2]) THEN Err(InvalidType)
  ELSE IF Len(e[1].e) # 3 \/ Len(e[2].e) # 3 THEN Err(GtNeedThree)
  ELSE
    Try(cubic_extension_field_from_vec(e[1].e), LAMBDA c0 :
      Try(cubic_extension_field_from_vec(e[2].e), LAMBDA c1 : Ok(<<c0, c1>>)))

\* Deserializer::deserialize_seq(visitor) of a human-readable format: the result
\* of visit_seq; when the visitor returns a value and leaves elements of the
\* array unread, what happens is the format's own: serde_json fails with
\* "trailing characters", serde's SeqAccessDeserializer returns the value
TrailingCharacters == "trailing characters"
deserialize_seq(r, unread) ==
  IF IsOk(r) /\ unread > 0 THEN {r, Err(TrailingCharacters)} ELSE {r}

\* an element of the target field: c0 and c1 in the cubic extension, each of
\* three elements of the quadratic extension; leaf k in the order c0.c0.c0,
\* c0.c0.c1, c0.c1.c0, ..
GtLeaf(p, k) == p[((k - 1) \div 6) + 1][(((k - 1) % 6) \div 2) + 1][((k - 1) % 2) + 1]
GtFromLeaves(c) ==
  [i \in 1..2 |-> [j \in 1..3 |-> [l \in 1..2 |-> c[6 * (i - 1) + 2 * (j - 1) + l]]]]

\* GtVisitor::visit_bytes: deserialize_compressed of the twelve leaves
GtVisitBytes(b) ==
  Try(ReadCompressed(b, 12), LAMBDA c : Ok(GtFromLeaves(c)))

\* the results deserialize_gt may return: visit_bytes for a byte string;
\* visit_seq for an array, of which it reads two elements
deserialize_gt(w) ==
  IF w.t = "bytes" THEN {GtVisitBytes(w.b)}
  ELSE deserialize_seq(GtVisitor(w), Len(w.e) - 2)

\* G1SeqVisitor::visit_seq: push decoded points until the sequence ends
RECURSIVE G1SeqVisitSeq(_, _, _)
G1SeqVisitSeq(CHECK, e, values) ==
  IF Len(e) = 0 THEN Ok(values)
  ELSE IF ~IsVecString(Head(e)) THEN Err(InvalidType)
  ELSE IF Len(Head(e).e) # 3 THEN Err(InvalidLength(Len(Head(e).e)))
  ELSE
    Try(map_err(g1_from_strings_projective(CHECK, Head(e).e[1].s, Head(e).e[2].s,
                                           Head(e).e[3].s),
                G1SeqInvalidPoint),
        LAMBDA point : G1SeqVisitSeq(CHECK, Tail(e), Append(values, point)))

G1SeqVisitor(CHECK, w) == G1SeqVisitSeq(CHECK, w.e, <<>>)

deserialize_g1_seq(w) == G1SeqVisitor(TRUE, w)
deserialize_g1_seq_unchecked(w) == G1SeqVisitor(FALSE, w)

\* the two decimal strings of an element of the quadratic extension
QuadStrings(a) == StrArray(<<to_string(a[1]), to_string(a[2])>>)

\* p.xy(): the coordinates of a finite point, nothing (<<>>) for the identity
xy(p) == IF p.infinity THEN <<>> ELSE <<p.x, p.y>>

serialize_g2(p, is_human_readable) ==
  IF is_human_readable
  THEN
    LET c == IF xy(p) = <<>> THEN <<Zero(2), Zero(2)>> ELSE xy(p) IN
    SeqOf(<<QuadStrings(c[1]), QuadStrings(c[2]), StrArray(<<<<"1">>, <<"0">>>>)>>)
  ELSE Bytes(point_serialize_compressed(G2Config, p))

\* bn254::serialize_g2: the fields x and y of the point, whatever the format
bn254_serialize_g2(p) ==
  SeqOf(<<QuadStrings(p.x), QuadStrings(p.y), StrArray(<<<<"1">>, <<"0">>>>)>>)

\* variant of g1_to_strings_projective: the identity as the affine (0, 0)
g1_to_strings_projective_zero_xy(p) ==
  IF xy(p) # <<>>
  THEN <<to_string(xy(p)[1][1]), to_string(xy(p)[2][1]), NatToString(1)>>
  ELSE <<NatToString(0), NatToString(0), NatToString(1)>>

\* [x, y, "1"] for a finite point, ["0", "1", "0"] for the point at infinity
g1_to_strings_projective(p) ==
  IF xy(p) # <<>>
  THEN <<to_string(xy(p)[1][1]), to_string(xy(p)[2][1]), NatToString(1)>>
  ELSE <<NatToString(0), NatToString(1), NatToString(0)>>

serialize_g1(p, is_human_readable) ==
  IF is_human_readable THEN StrArray(g1_to_strings_projective(p))
  ELSE Bytes(point_serialize_compressed(G1Config, p))

\* the 3 x 2 array of strings of an element of the cubic extension
CubicStrings(a) == SeqOf(<<QuadStrings(a[1]), QuadStrings(a[2]), QuadStrings(a[3])>>)

\* serialize_compressed of an element of the target field: its twelve leaves
gt_serialize_compressed(p) == ConcatCompressed([k \in 1..12 |-> GtLeaf(p, k)])

serialize_gt(p, is_human_readable) ==
  IF is_human_readable THEN SeqOf(<<CubicStrings(p[1]), CubicStrings(p[2])>>)
  ELSE Bytes(gt_serialize_compressed(p))

(* ------------------- the point codec as a state machine ---------------- *)
\* the canonical strings of the field elements, and some rejected spellings
CoordStrings == {NatToString(n) : n \in FieldElements}
BadCoordStrings == {<<"-", "1">>, <<"+", "1">>, <<"0", "1">>, NatToString(Modulus)}


G1Wires ==
  {G1Wire(x, y, z) : x \in CoordStrings \cup BadCoordStrings,
                     y \in CoordStrings \cup BadCoordStrings,
                     z \in CoordStrings \cup BadCoordStrings}
\* arrays with a missing or a trailing coordinate
G1ShapeWires ==
  {StrArray(strs) : strs \in UNION {[1..k -> {<<"0">>, <<"1">>}] : k \in {0, 1, 2, 4, 5}}}

CoordPairs == CoordStrings \X CoordStrings
G2ZPairs ==
  {<<NatToString(0), NatToString(0)>>, <<NatToString(1), NatToString(0)>>,
   <<NatToString(2), NatToString(0)>>, <<NatToString(0), NatToString(1)>>,
   <<NatToString(3), NatToString(5)>>}
G2Wires == {G2Wire(x, y, z) : x \in CoordPairs, y \in CoordPairs, z \in G2ZPairs}
\* one rejected spelling among six coordinate strings
G2BadWires ==
  {G2Wire(<<c[1], c[2]>>, <<c[3], c[4]>>, <<c[5], c[6]>>) :
     c \in {[i \in 1..6 |-> IF i = k THEN b ELSE <<"1">>] :
              k \in 1..6, b \in BadCoordStrings}}
\* coordinate arrays of the wrong arity, and a missing or trailing coordinate
G2ShapeWires ==
  {SeqOf([i \in 1..3 |-> StrArray([j \in 1..n[i] |-> <<"1">>])]) :
     n \in [1..3 -> 0..3]}
  \cup {SeqOf([i \in 1..k |-> StrArray(<<<<"1">>, <<"0">>>>)]) : k \in 0..2}
  \cup {SeqOf(<<StrArray(<<<<"1">>, <<"1">>>>), StrArray(<<<<"1">>, <<"1">>>>),
               StrArray(<<<<"1">>, <<"0">>>>), Str(<<"1">>)>>)}

\* a 2 x 3 x 2 array of strings from its twelve leaves
GtWire(c) ==
  SeqOf([i \in 1..2 |->
    SeqOf([j \in 1..3 |->
      StrArray(<<c[6 * (i - 1) + 2 * (j - 1) + 1], c[6 * (i - 1) + 2 * (j - 1) + 2]>>)])])
\* one leaf varies over the accepted and the rejected spellings
GtWires ==
  {GtWire([i \in 1..12 |-> IF i = k THEN b ELSE <<"1">>]) :
     k \in 1..12, b \in CoordStrings \cup BadCoordStrings}
\* a missing component, a cubic component of two pairs, a pair of three strings
GtShapeWires ==
  {SeqOf([i \in 1..k |-> GtWire([l \in 1..12 |-> <<"1">>]).e[i]]) : k \in 0..1}
  \cup {SeqOf(<<GtWire([l \in 1..12 |-> <<"1">>]).e[1],
                SeqOf([j \in 1..2 |-> StrArray(<<<<"1">>, <<"0">>>>)])>>)}
  \cup {SeqOf(<<SeqOf([j \in 1..3 |-> StrArray([l \in 1..n |-> <<"1">>])]),
                GtWire([l \in 1..12 |-> <<"1">>]).e[2]>>) : n \in {1, 3}}
  \cup {SeqOf(<<GtWire([l \in 1..12 |-> <<"1">>]).e[1],
                SeqOf([j \in 1..3 |-> StrArray([l \in 1..n |-> <<"1">>])])>>) : n \in {1, 3}}
  \cup {SeqOf(<<SeqOf([j \in 1..k |-> StrArray(<<<<"1">>, <<"0">>>>)]),
                GtWire([l \in 1..12 |-> <<"1">>]).e[2]>>) : k \in {0, 2, 4}}
  \cup {SeqOf(GtWire([l \in 1..12 |-> <<"1">>]).e \o <<third>>) :
          third \in {GtWire([l \in 1..12 |-> <<"1">>]).e[1], Str(<<"1">>)}}

\* the elements of a G1 sequence: points of the subgroup, the identity, a point
\* off the curve, a point outside the subgroup, a rejected spelling, and arrays
\* of the wrong length
G1SeqElements ==
  {G1Wire(<<"0">>, <<"1">>, <<"1">>), G1Wire(<<"0">>, <<"6">>, <<"1">>),
   G1Wire(<<"0">>, <<"1">>, <<"0">>), G1Wire(<<"1">>, <<"1">>, <<"1">>),
   G1Wire(<<"2">>, <<"3">>, <<"1">>), G1Wire(<<"-", "1">>, <<"1">>, <<"1">>),
   StrArray(<<>>), StrArray(<<<<"0">>, <<"1">>>>),
   StrArray(<<<<"0">>, <<"1">>, <<"1">>, <<"1">>>>)}
G1SeqWires ==
  {SeqOf(e) : e \in UNION {[1..k -> G1SeqElements] : k \in 0..MaxSeq}}

\* the points of G2, the identity included
G2Points ==
  {identity(G2Config)}
  \cup {q \in {Affine(<<x[1], x[2]>>, <<y[1], y[2]>>) :
                 x \in FieldElements \X FieldElements,
                 y \in FieldElements \X FieldElements} : is_on_curve(G2Config, q)}
G2Val(p) == [t |-> "g2", v |-> p]

\* the points of the curve of G1, the identity included
G1Points ==
  {identity(G1Config)}
  \cup {q \in {Affine(<<x>>, <<y>>) : x \in FieldElements, y \in FieldElements} :
          is_on_curve(G1Config, q)}
G1Val(p) == [t |-> "g1", v |-> p]

\* elements of the target field: one leaf varies over the field
GtElements ==
  {GtFromLeaves([i \in 1..12 |-> IF i = k THEN f ELSE 1]) : k \in 1..12, f \in FieldElements}
GtVal(p) == [t |-> "gt", v |-> p]

\* byte strings handed to the binary G1 decoders
G1ByteWires == {Bytes(<<n>> \o [i \in 1..(serialized_size - 1) |-> 0]) : n \in 0..255}

InitPoint ==
  /\ call = "none"
  /\ ret = Pending
  /\ out = NoWire
  /\ \/ /\ value = NoValue
        /\ human = TRUE
        /\ \/ wire \in G1Wires
           \/ wire \in G1ShapeWires
           \/ wire \in G2Wires
           \/ wire \in G2BadWires
           \/ wire \in G2ShapeWires
           \/ wire \in GtWires
           \/ wire \in GtShapeWires
           \/ wire \in G1SeqWires
     \/ /\ value = NoValue
        /\ human = FALSE
        /\ wire \in G1ByteWires
     \/ /\ \/ \E p \in G2Points : value = G2Val(p)
           \/ \E p \in G1Points : value = G1Val(p)
           \/ \E p \in GtElements : value = GtVal(p)
        /\ human \in BOOLEAN
        /\ wire = NoWire

\* the wire is an array of strings (G1) or an array of arrays (G2)
G1Shaped == wire.t = "seq" /\ \A i \in 1..Len(wire.e) : wire.e[i].t = "str"
G2Shaped == wire.t = "seq" /\ (IF Len(wire.e) = 0 THEN TRUE ELSE wire.e[1].t = "seq")

\* the wire a decoder is given: an array of the human-readable format, or
\* the bytes an encoder of the same type has written
G1Input == IF wire.t = "bytes" THEN value.t \in {"g1", "none"} ELSE G1Shaped
G2Input == IF wire.t = "bytes" THEN value.t = "g2" ELSE G2Shaped

DeserializeG1 ==
  /\ ret = Pending /\ G1Input
  /\ ret' = deserialize_g1(wire)
  /\ call' = "deserialize_g1"
  /\ UNCHANGED <<value, wire, human, out>>

DeserializeG1Unchecked ==
  /\ ret = Pending /\ G1Input
  /\ ret' = deserialize_g1_unchecked(wire)
  /\ call' = "deserialize_g1_unchecked"
  /\ UNCHANGED <<value, wire, human, out>>

DeserializeG2 ==
  /\ ret = Pending /\ G2Input
  /\ ret' = deserialize_g2(wire)
  /\ call' = "deserialize_g2"
  /\ UNCHANGED <<value, wire, human, out>>

DeserializeG2Unchecked ==
  /\ ret = Pending /\ G2Input
  /\ ret' = deserialize_g2_unchecked(wire)
  /\ call' = "deserialize_g2_unchecked"
  /\ UNCHANGED <<value, wire, human, out>>

\* the first element of the wire, if any, is an array of arrays (GT) or an
\* array of strings (G1 sequence)
GtShaped ==
  /\ wire.t = "seq"
  /\ (IF Len(wire.e) = 0 THEN TRUE
      ELSE IF wire.e[1].t # "seq" THEN FALSE
      ELSE IF Len(wire.e[1].e) = 0 THEN TRUE
      ELSE wire.e[1].e[1].t = "seq")
G1SeqShaped ==
  /\ wire.t = "seq"
  /\ (IF Len(wire.e) = 0 THEN TRUE ELSE IsVecString(wire.e[1]))

GtInput == IF wire.t = "bytes" THEN value.t = "gt" ELSE GtShaped

DeserializeGt ==
  /\ ret = Pending /\ GtInput
  /\ ret' \in deserialize_gt(wire)
  /\ call' = "deserialize_gt"
  /\ UNCHANGED <<value, wire, human, out>>

DeserializeG1Seq ==
  /\ ret = Pending /\ G1SeqShaped
  /\ ret' = deserialize_g1_seq(wire)
  /\ call' = "deserialize_g1_seq"
  /\ UNCHANGED <<value, wire, human, out>>

DeserializeG1SeqUnchecked ==
  /\ ret = Pending /\ G1SeqShaped
  /\ ret' = deserialize_g1_seq_unchecked(wire)
  /\ call' = "deserialize_g1_seq_unchecked"
  /\ UNCHANGED <<value, wire, human, out>>

SerializeG2 ==
  /\ value.t = "g2" /\ wire = NoWire
  /\ wire' = serialize_g2(value.v, human)
  /\ call' = "serialize_g2"
  /\ UNCHANGED <<value, human, ret, out>>

Bn254SerializeG2 ==
  /\ value.t = "g2" /\ wire = NoWire
  /\ wire' = bn254_serialize_g2(value.v)
  /\ call' = "bn254::serialize_g2"
  /\ UNCHANGED <<value, human, ret, out>>

SerializeG1 ==
  /\ value.t = "g1" /\ wire = NoWire
  /\ wire' = serialize_g1(value.v, human)
  /\ call' = "serialize_g1"
  /\ UNCHANGED <<value, human, ret, out>>

SerializeGt ==
  /\ value.t = "gt" /\ wire = NoWire
  /\ wire' = serialize_gt(value.v, human)
  /\ call' = "serialize_gt"
  /\ UNCHANGED <<value, human, ret, out>>

NextPoint ==
  \/ SerializeG1
  \/ SerializeGt
  \/ DeserializeG1
  \/ DeserializeG1Unchecked
  \/ DeserializeG2
  \/ DeserializeG2Unchecked
  \/ DeserializeGt
  \/ DeserializeG1Seq
  \/ DeserializeG1SeqUnchecked
  \/ SerializeG2
  \/ Bn254SerializeG2

SpecPoint == InitPoint /\ [][NextPoint]_vars

(* ------------- decoding a wire input and encoding it again ------------- *)
\* the element decoded from a wire string is encoded again
SerializeDecodedF ==
  /\ value = NoValue /\ call \in {"deserialize_f", "deserialize_f_signed"}
  /\ IsOk(ret) /\ out = NoWire
  /\ out' = serialize_f(ret.val, human)
  /\ call' = "serialize_f"
  /\ UNCHANGED <<value, wire, human, ret>>

\* the point a Checked decode has returned for a wire input is encoded again
SerializeDecodedG1 ==
  /\ value = NoValue /\ call = "deserialize_g1" /\ IsOk(ret) /\ out = NoWire
  /\ out' = serialize_g1(ret.val, human)
  /\ call' = "serialize_g1"
  /\ UNCHANGED <<value, wire, human, ret>>

\* a human-readable string or G1 triple to decode
InitReencode ==
  /\ call = "none"
  /\ ret = Pending
  /\ out = NoWire
  /\ value = NoValue
  /\ human = TRUE
  /\ \/ wire \in {Str(s) : s \in StringsUpTo(MaxLen)}
     \/ wire \in G1Wires

NextReencode ==
  \/ DeserializeF
  \/ DeserializeFSigned
  \/ DeserializeG1
  \/ SerializeDecodedF
  \/ SerializeDecodedG1

SpecReencode == InitReencode /\ [][NextReencode]_vars

(* ----------------- the sequence decoders as a state machine ------------ *)
\* the elements of a field sequence: canonical strings and rejected spellings
FieldSeqElements ==
  {Str(s) : s \in {NatToString(0), NatToString(1), NatToString(Modulus - 1),
                   NatToString(Modulus), <<"-", "1">>, <<"+", "1">>, <<"0", "1">>}}
FieldSeqWires ==
  {SeqOf(e) : e \in UNION {[1..k -> FieldSeqElements] : k \in 0..MaxSeq}}

\* a human-readable array of strings or of coordinate triples to decode
InitSeq ==
  /\ call = "none"
  /\ ret = Pending
  /\ out = NoWire
  /\ value = NoValue
  /\ human = TRUE
  /\ \/ wire \in FieldSeqWires
     \/ wire \in G1SeqWires

NextSeq ==
  \/ DeserializeFSeq
  \/ DeserializeFSeqSigned
  \/ DeserializeG1Seq
  \/ DeserializeG1SeqUnchecked

SpecSeq == InitSeq /\ [][NextSeq]_vars

(* ------------------- the bn254 and babyjubjub modules ------------------ *)
(* The curve modules name a concrete curve.  Their decoders read a         *)
(* coordinate with the FromStr of the field type of the arithmetic library. *)
Bn254InvalidPoint == "Invalid projective point on G1."
BabyJubJubMissingX == "expected babyjubjub affine coordinates but x coordinate missing."
BabyJubJubMissingY == "expected babyjubjub affine coordinates but y coordinate missing."
BabyJubJubInvalidPoint == "Invalid affine point on babyjubjub."
BabyJubJubInvalidData == "Invalid data"
\* the unit error the module functions return before the visitor names it
UnitError == "SerdeCompatError"

\* Fp::from_str of a field of characteristic MODULUS: BigInt::from_str(s)? %
\* modulus with the sign of the dividend, plus the modulus when negative
FpFromStr(MODULUS, s) ==
  Try(BigIntFromStr(s), LAMBDA n :
    LET a == IF n < 0 THEN 0 - ((0 - n) % MODULUS) ELSE n % MODULUS
    IN Ok(IF a < 0 THEN a + MODULUS ELSE a))

\* bn254::g1_to_strings_projective
bn254_g1_to_strings_projective(p) ==
  IF xy(p) # <<>>
  THEN <<to_string(xy(p)[1][1]), to_string(xy(p)[2][1]), NatToString(1)>>
  ELSE <<NatToString(0), NatToString(1), NatToString(0)>>

\* bn254::serialize_g1: the array of strings, whatever the format
bn254_serialize_g1(p) == StrArray(bn254_g1_to_strings_projective(p))

\* bn254::g1_from_strings_projective
bn254_g1_from_strings_projective(x, y, z) ==
  Try(map_err(FpFromStr(Modulus, x), UnitError), LAMBDA fx :
    Try(map_err(FpFromStr(Modulus, y), UnitError), LAMBDA fy :
      Try(map_err(FpFromStr(Modulus, z), UnitError), LAMBDA fz :
        ValidatePoint(TRUE, G1Config, into_affine(G1Config, <<fx>>, <<fy>>, <<fz>>),
                      UnitError, UnitError))))

\* Bn254G1Visitor::visit_seq over the elements of the wire array
Bn254G1Visitor(w) ==
  LET e == w.e IN
  IF Len(e) < 1 THEN Err(G1MissingX)
  ELSE IF e[1].t # "str" THEN Err(InvalidType)
  ELSE IF Len(e) < 2 THEN Err(G1MissingY)
  ELSE IF e[2].t # "str" THEN Err(InvalidType)
  ELSE IF Len(e) < 3 THEN Err(G1MissingZ)
  ELSE IF e[3].t # "str" THEN Err(InvalidType)
  ELSE IF Len(e) >= 4 THEN (IF e[4].t # "str" THEN Err(InvalidType) ELSE Err(InvalidLength4))
  ELSE map_err(bn254_g1_from_strings_projective(e[1].s, e[2].s, e[3].s), Bn254InvalidPoint)

\* bn254::deserialize_g1: deserialize_seq with a visitor that has visit_seq only
bn254_deserialize_g1(w) ==
  IF w.t = "seq" THEN Bn254G1Visitor(w) ELSE Err(InvalidType)

\* TECurveConfig of the twisted Edwards curve a x^2 + y^2 = 1 + d x^2 y^2
EdwardsConfig == [COEFF_A |-> 1, COEFF_D |-> 5]
EdwardsAffine(x, y) == [x |-> x, y |-> y]
\* the identity of a twisted Edwards curve is (0, 1)
te_is_zero(p) == p.x = 0 /\ p.y = 1
te_is_on_curve(p) ==
  (EdwardsConfig.COEFF_A * p.x * p.x + p.y * p.y) % Modulus
    = (1 + EdwardsConfig.COEFF_D * p.x * p.x * p.y * p.y) % Modulus
\* the group law of the curve
te_add(p, q) ==
  LET t == (EdwardsConfig.COEFF_D * p.x * q.x * p.y * q.y) % Modulus
      x3 == ((p.x * q.y + p.y * q.x) * FpInv((1 + t) % Modulus)) % Modulus
      y3 == ((p.y * q.y + (Modulus - EdwardsConfig.COEFF_A) * p.x * q.x)
               * FpInv((1 + Modulus - t) % Modulus)) % Modulus
  IN EdwardsAffine(x3, y3)
RECURSIVE te_mul_bigint(_, _)
te_mul_bigint(p, k) ==
  IF k = 0 THEN EdwardsAffine(0, 1) ELSE te_add(te_mul_bigint(p, k - 1), p)
te_is_in_correct_subgroup_assuming_on_curve(p) ==
  te_is_zero(te_mul_bigint(p, ScalarModulus))

\* babyjubjub::serialize_fr and serialize_fq call the generic serialize_f
babyjubjub_serialize_fr(f, is_human_readable) == serialize_f(f, is_human_readable)
babyjubjub_serialize_fq(f, is_human_readable) == serialize_f(f, is_human_readable)
\* ser.serialize_str(&p.to_string()), whatever the format
serialize_babyjubjub_fq(p) == Str(to_string(p))
\* the array [x, y] of strings, whatever the format
serialize_babyjubjub_affine(p) == StrArray(<<to_string(p.x), to_string(p.y)>>)

babyjubjub_affine_from_strings(x, y) ==
  Try(map_err(FpFromStr(Modulus, x), UnitError), LAMBDA fx :
    Try(map_err(FpFromStr(Modulus, y), UnitError), LAMBDA fy :
      LET p == EdwardsAffine(fx, fy) IN
      IF te_is_zero(p) THEN OkAfter(p, <<>>)
      ELSE IF ~te_is_on_curve(p) THEN ErrAfter(UnitError, <<CurveTest>>)
      ELSE IF ~te_is_in_correct_subgroup_assuming_on_curve(p)
        THEN ErrAfter(UnitError, <<CurveTest, SubgroupTest>>)
      ELSE OkAfter(p, <<CurveTest, SubgroupTest>>)))

\* BabyJubJubAffineVisitor::visit_seq over the elements of the wire array
BabyJubJubAffineVisitor(w) ==
  LET e == w.e IN
  IF Len(e) < 1 THEN Err(BabyJubJubMissingX)
  ELSE IF e[1].t # "str" THEN Err(InvalidType)
  ELSE IF Len(e) < 2 THEN Err(BabyJubJubMissingY)
  ELSE IF e[2].t # "str" THEN Err(InvalidType)
  ELSE IF Len(e) >= 3 THEN (IF e[3].t # "str" THEN Err(InvalidType) ELSE Err(InvalidLength(3)))
  ELSE map_err(babyjubjub_affine_from_strings(e[1].s, e[2].s), BabyJubJubInvalidPoint)

\* deserialize_seq with a visitor that has visit_seq only
deserialize_babyjubjub_affine(w) ==
  IF w.t = "seq" THEN BabyJubJubAffineVisitor(w) ELSE Err(InvalidType)

\* deserialize_str with BabyJubJubFrVisitor and BabyJubJubFqVisitor, which
\* have visit_str only
deserialize_babyjubjub_fr(w) ==
  IF w.t = "str" THEN map_err(FpFromStr(ScalarModulus, w.s), BabyJubJubInvalidData)
  ELSE Err(InvalidType)
deserialize_babyjubjub_fq(w) ==
  IF w.t = "str" THEN map_err(FpFromStr(Modulus, w.s), BabyJubJubInvalidData)
  ELSE Err(InvalidType)

(* ------------------- the curve modules as a state machine -------------- *)
ScalarFieldElements == 0..(ScalarModulus - 1)
FrVal(f) == [t |-> "fr", v |-> f]
\* the points of the twisted Edwards curve, the identity included
EdwardsPoints ==
  {q \in {EdwardsAffine(x, y) : x \in FieldElements, y \in FieldElements} : te_is_on_curve(q)}
EdwardsVal(p) == [t |-> "te", v |-> p]
\* pairs of accepted and rejected spellings, and arrays of another length
EdwardsWires ==
  {StrArray(<<x, y>>) : x \in CoordStrings \cup BadCoordStrings,
                        y \in CoordStrings \cup BadCoordStrings}
  \cup {StrArray(strs) : strs \in UNION {[1..k -> {<<"0">>, <<"1">>}] : k \in {0, 1, 3}}}

\* either a human-readable wire to decode, or a value to encode and decode
InitModules ==
  /\ call = "none"
  /\ ret = Pending
  /\ out = NoWire
  /\ \/ /\ value = NoValue
        /\ human = TRUE
        /\ \/ wire \in {Str(s) : s \in StringsUpTo(MaxLen)}
           \/ wire \in G1Wires
           \/ wire \in EdwardsWires
     \/ /\ \/ \E f \in FieldElements : value = FVal(f)
           \/ \E f \in ScalarFieldElements : value = FrVal(f)
           \/ \E p \in G1Points : value = G1Val(p)
           \/ \E p \in EdwardsPoints : value = EdwardsVal(p)
        /\ human \in BOOLEAN
        /\ wire = NoWire

BabyjubjubSerializeFr ==
  /\ value.t = "fr" /\ wire = NoWire
  /\ wire' = babyjubjub_serialize_fr(value.v, human)
  /\ call' = "babyjubjub::serialize_fr"
  /\ UNCHANGED <<value, human, ret, out>>

BabyjubjubSerializeFq ==
  /\ value.t = "f" /\ wire = NoWire
  /\ wire' = babyjubjub_serialize_fq(value.v, human)
  /\ call' = "babyjubjub::serialize_fq"
  /\ UNCHANGED <<value, human, ret, out>>

SerializeBabyjubjubFq ==
  /\ value.t = "f" /\ wire = NoWire
  /\ wire' = serialize_babyjubjub_fq(value.v)
  /\ call' = "babyjubjub::serialize_babyjubjub_fq"
  /\ UNCHANGED <<value, human, ret, out>>

SerializeBabyjubjubAffine ==
  /\ value.t = "te" /\ wire = NoWire
  /\ wire' = serialize_babyjubjub_affine(value.v)
  /\ call' = "babyjubjub::serialize_babyjubjub_affine"
  /\ UNCHANGED <<value, human, ret, out>>

Bn254SerializeG1 ==
  /\ value.t = "g1" /\ wire = NoWire
  /\ wire' = bn254_serialize_g1(value.v)
  /\ call' = "bn254::serialize_g1"
  /\ UNCHANGED <<value, human, ret, out>>

\* the wire a module decoder is given: a string or an array of strings of the
\* human-readable format, or what an encoder of the same type has written
FrInput == IF value = NoValue THEN wire.t = "str" ELSE value.t = "fr" /\ wire # NoWire
FqInput == IF value = NoValue THEN wire.t = "str" ELSE value.t = "f" /\ wire # NoWire
EdwardsInput == IF value = NoValue THEN G1Shaped ELSE value.t = "te" /\ wire # NoWire
Bn254G1Input == IF value = NoValue THEN G1Shaped ELSE value.t = "g1" /\ wire # NoWire

DeserializeBabyjubjubFr ==
  /\ ret = Pending /\ FrInput
  /\ ret' = deserialize_babyjubjub_fr(wire)
  /\ call' = "babyjubjub::deserialize_babyjubjub_fr"
  /\ UNCHANGED <<value, wire, human, out>>

DeserializeBabyjubjubFq ==
  /\ ret = Pending /\ FqInput
  /\ ret' = deserialize_babyjubjub_fq(wire)
  /\ call' = "babyjubjub::deserialize_babyjubjub_fq"
  /\ UNCHANGED <<value, wire, human, out>>

DeserializeBabyjubjubAffine ==
  /\ ret = Pending /\ EdwardsInput
  /\ ret' = deserialize_babyjubjub_affine(wire)
  /\ call' = "babyjubjub::deserialize_babyjubjub_affine"
  /\ UNCHANGED <<value, wire, human, out>>

Bn254DeserializeG1 ==
  /\ ret = Pending /\ Bn254G1Input
  /\ ret' = bn254_deserialize_g1(wire)
  /\ call' = "bn254::deserialize_g1"
  /\ UNCHANGED <<value, wire, human, out>>

NextModules ==
  \/ BabyjubjubSerializeFr
  \/ BabyjubjubSerializeFq
  \/ SerializeBabyjubjubFq
  \/ SerializeBabyjubjubAffine
  \/ Bn254SerializeG1
  \/ SerializeG1
  \/ DeserializeBabyjubjubFr
  \/ DeserializeBabyjubjubFq
  \/ DeserializeBabyjubjubAffine
  \/ Bn254DeserializeG1
  \/ DeserializeG1

SpecModules == InitModules /\ [][NextModules]_vars

(* ======================= properties of the field codec ================= *)
Unsigned == call = "deserialize_f"
Signed == call = "deserialize_f_signed"
\* a decode of a wire string has returned
DecodedStr == (Unsigned \/ Signed) /\ wire.t = "str"
Minus(d) == <<"-">> \o d
\* a digit string with no leading zero, or exactly "0"
CanonicalDigits(d) ==
  /\ Len(d) >= 1
  /\ ~AnyNonDigit(d)
  /\ (d[1] # "0" \/ d = <<"0">>)
RetIs(f) == IsOk(ret) /\ ret.val = f

\* the strings each mode accepts, among all strings up to MaxLen
AcceptedUnsigned ==
  {s \in StringsUpTo(MaxLen) : IsOk(parse_field_str_inner(TRUE, s))}
AcceptedSigned ==
  {s \in StringsUpTo(MaxLen) : IsOk(parse_field_str_inner(FALSE, s))}

\* C2: serialize_f emits the canonical decimal string (human-readable) or the
\* compressed bytes (binary) of f, and deserialize_f and deserialize_f_signed
\* return f from that output; the sequence variants do the same element-wise.
C2_FieldRoundTrip ==
  /\ (value.t = "f" /\ wire # NoWire /\ human) =>
        /\ wire.t = "str"
        /\ CanonicalDigits(wire.s)
        /\ DigitsValue(wire.s) = value.v
  /\ (value.t = "f" /\ wire # NoWire /\ ~human) =>
        /\ wire.t = "bytes"
        /\ FromBytesLE(wire.b) = value.v
  /\ (value.t = "f" /\ (Unsigned \/ Signed)) => RetIs(value.v)
  /\ (value.t = "fseq" /\ wire # NoWire /\ human) =>
        /\ wire.t = "seq"
        /\ Len(wire.e) = Len(value.v)
        /\ \A i \in 1..Len(value.v) :
              /\ wire.e[i].t = "str"
              /\ CanonicalDigits(wire.e[i].s)
              /\ DigitsValue(wire.e[i].s) = value.v[i]
  /\ (value.t = "fseq" /\ wire # NoWire /\ ~human) => wire.t = "bytes"
  /\ (value.t = "fseq" /\ call \in {"deserialize_f_seq", "deserialize_f_seq_signed"}) =>
        RetIs(value.v)

C2_Witness ==
  /\ value.t = "fseq" /\ Len(value.v) = 2 /\ value.v[1] = 0 /\ value.v[2] = Modulus - 1
  /\ call = "deserialize_f_seq_signed"
  /\ human
  /\ IsOk(ret)

\* C3: two distinct strings accepted in unsigned mode never decode to the same
\* element; in signed mode they do so only if exactly one starts with '-'.
C3_Injective ==
  /\ (Unsigned /\ wire.t = "str" /\ IsOk(ret)) =>
        \A t \in AcceptedUnsigned :
           parse_field_str_inner(TRUE, t).val = ret.val => t = wire.s
  /\ (Signed /\ wire.t = "str" /\ IsOk(ret)) =>
        \A t \in AcceptedSigned :
           (t # wire.s /\ parse_field_str_inner(FALSE, t).val = ret.val) =>
              (StartsWithChar(t, "-") # StartsWithChar(wire.s, "-"))

C3_Witness ==
  /\ Signed /\ wire = Str(<<"-", "1">>)
  /\ RetIs(Modulus - 1)
  /\ NatToString(Modulus - 1) \in AcceptedSigned

\* C4 as stated: in both modes the only string that decodes to zero is "0".
C4_Original ==
  (DecodedStr /\ RetIs(0)) => wire.s = <<"0">>

\* C4 as amended: in unsigned mode the only string that decodes to zero is
\* "0"; in signed mode the only strings that decode to zero are "0" and "-p".
C4_ZeroRepresentations ==
  /\ (Unsigned /\ wire.t = "str" /\ RetIs(0)) => wire.s = <<"0">>
  /\ (Signed /\ wire.t = "str" /\ RetIs(0)) =>
        wire.s \in {<<"0">>, Minus(NatToString(Modulus))}

C4_Witness == Signed /\ wire = Str(Minus(NatToString(Modulus))) /\ RetIs(0)

\* C5: "0" decodes to zero in both modes, "00" fails with NonCanonicalZero in
\* both modes, "-0" fails in both modes (NonCanonicalZero in signed mode).
C5_CanonicalZero ==
  /\ (DecodedStr /\ wire.s = <<"0">>) => RetIs(0)
  /\ (DecodedStr /\ wire.s = <<"0", "0">>) => IsErr(ret, NonCanonicalZero)
  /\ (Signed /\ wire.t = "str" /\ wire.s = <<"-", "0">>) => IsErr(ret, NonCanonicalZero)
  /\ (Unsigned /\ wire.t = "str" /\ wire.s = <<"-", "0">>) => ret.tag = "Err"

C5_Witness == Signed /\ wire = Str(<<"-", "0">>) /\ IsErr(ret, NonCanonicalZero)

\* C6: in signed mode "-d", d a canonical digit string of value v with
\* 1 <= v < p, decodes to p - v; so "-1" and the string of p-1 decode to the
\* same element, and "-(p-1)" decodes to the same element as "1".
C6_SignedNegative ==
  /\ (Signed /\ wire.t = "str" /\ StartsWithChar(wire.s, "-")
        /\ CanonicalDigits(Tail(wire.s))
        /\ DigitsValue(Tail(wire.s)) \in 1..(Modulus - 1)) =>
        RetIs(Modulus - DigitsValue(Tail(wire.s)))
  /\ (Signed /\ wire.t = "str" /\ wire.s = NatToString(Modulus - 1)) => RetIs(Modulus - 1)
  /\ (Signed /\ wire.t = "str" /\ wire.s = <<"1">>) => RetIs(1)

C6_Witness == Signed /\ wire = Str(Minus(NatToString(Modulus - 1))) /\ RetIs(1)

\* C7: in unsigned mode every string that starts with '-' is rejected with
\* NegativeRejected, whatever follows the sign.
C7_UnsignedRejectsMinus ==
  (Unsigned /\ wire.t = "str" /\ StartsWithChar(wire.s, "-")) =>
     IsErr(ret, NegativeRejected)

C7_Witness == Unsigned /\ wire = Str(<<"-", "x">>) /\ IsErr(ret, NegativeRejected)

\* C8: a canonical unsigned digit string of value v decodes, in either mode,
\* if and only if v < p, and then to v; otherwise it fails with OutOfRange.
C8_RangeLaw ==
  (DecodedStr /\ CanonicalDigits(wire.s)) =>
     /\ DigitsValue(wire.s) < Modulus => RetIs(DigitsValue(wire.s))
     /\ DigitsValue(wire.s) >= Modulus => IsErr(ret, OutOfRange)

C8_Witness == Signed /\ wire = Str(NatToString(Modulus)) /\ IsErr(ret, OutOfRange)

\* C9: in signed mode "-p" decodes to zero and "-(p+1)" fails with OutOfRange.
C9_SignedBoundary ==
  /\ (Signed /\ wire.t = "str" /\ wire.s = Minus(NatToString(Modulus))) => RetIs(0)
  /\ (Signed /\ wire.t = "str" /\ wire.s = Minus(NatToString(Modulus + 1))) =>
        IsErr(ret, OutOfRange)

C9_Witness ==
  /\ Signed /\ wire = Str(Minus(NatToString(Modulus + 1)))
  /\ IsErr(ret, OutOfRange)

\* C10 as stated: in signed mode every negative string of magnitude >= p
\* fails with OutOfRange.
C10_Original ==
  (Signed /\ wire.t = "str" /\ StartsWithChar(wire.s, "-")
     /\ CanonicalDigits(Tail(wire.s))
     /\ DigitsValue(Tail(wire.s)) >= Modulus) => IsErr(ret, OutOfRange)

\* C10 as amended: in signed mode every negative string of magnitude > p fails
\* with OutOfRange ("-(r+p)" for r in [1, p)), "-p" is accepted, and every
\* accepted signed string denotes an integer in [-p, p).
C10_SignedRange ==
  /\ (Signed /\ wire.t = "str" /\ StartsWithChar(wire.s, "-")
        /\ CanonicalDigits(Tail(wire.s))
        /\ DigitsValue(Tail(wire.s)) > Modulus) => IsErr(ret, OutOfRange)
  /\ (Signed /\ wire.t = "str" /\ IsOk(ret)) =>
        /\ IsOk(BigIntFromStr(wire.s))
        /\ BigIntFromStr(wire.s).val >= 0 - Modulus
        /\ BigIntFromStr(wire.s).val < Modulus

C10_Witness ==
  /\ Signed /\ wire = Str(Minus(NatToString(2 * Modulus - 1)))
  /\ IsErr(ret, OutOfRange)

\* the digits of a decoded string: in signed mode, what follows one leading '-'
DigitsPart == IF Signed THEN StripMinus(wire.s) ELSE wire.s
\* either of the two leading-zero messages
IsLeadingZero(r) == IsErr(r, LeadingZero) \/ IsErr(r, LeadingZeroNegative)

\* C11: an all-digit string (after one optional '-' in signed mode) whose first
\* digit is '0' and whose value is nonzero is rejected with a leading-zero
\* error in both modes, whatever its value; a digit string without a leading
\* zero and of value below p is accepted.
C11_LeadingZero ==
  /\ (DecodedStr /\ Len(DigitsPart) >= 1 /\ ~AnyNonDigit(DigitsPart)
        /\ DigitsPart[1] = "0" /\ DigitsValue(DigitsPart) # 0) =>
        /\ IsLeadingZero(ret)
        /\ IsErr(ret, LeadingZeroNegative) <=> StartsWithChar(wire.s, "-")
  /\ (DecodedStr /\ CanonicalDigits(wire.s) /\ DigitsValue(wire.s) < Modulus) =>
        RetIs(DigitsValue(wire.s))

C11_Witness ==
  /\ Signed /\ wire = Str(<<"-", "0", "1">>)
  /\ IsErr(ret, LeadingZeroNegative)

C13_InvalidDigits ==
  (DecodedStr /\ ~StartsWithChar(wire.s, "+")
     /\ (Unsigned => ~StartsWithChar(wire.s, "-"))
     /\ AnyNonDigit(DigitsPart)) => IsErr(ret, InvalidDigits)

C13_Witness == Signed /\ wire = Str(<<"-", "0", "x">>) /\ IsErr(ret, InvalidDigits)

\* the messages of the six kinds of failure (LeadingZero has two messages)
SixKinds ==
  {LeadingPlusSign, InvalidDigits, NegativeRejected, NonCanonicalZero,
   LeadingZero, LeadingZeroNegative, OutOfRange}

\* C14 as stated: every decode of a string returns a field element or fails
\* with one of the six kinds.
C14_Original ==
  DecodedStr => (IsOk(ret) \/ (ret.tag = "Err" /\ ret.msg \in SixKinds))

\* C14 as amended: every decode of a string returns a field element or fails
\* with one of the six kinds or with InvalidData; it fails with InvalidData
\* exactly for the empty string (both modes) and for "-" (signed mode).
C14_Total ==
  DecodedStr =>
     /\ IsOk(ret) \/ (ret.tag = "Err" /\ ret.msg \in SixKinds \cup {InvalidData})
     /\ IsErr(ret, InvalidData) <=>
           (wire.s = <<>> \/ (Signed /\ wire.s = <<"-">>))

C14_Witness == Signed /\ wire = Str(<<"-">>) /\ IsErr(ret, InvalidData)

\* C29: unsigned decoding of a '+' followed by digits ("+1", "+12") fails with
\* the digits-only error.
C29_PlusIsDigitsError ==
  (Unsigned /\ wire.t = "str" /\ Len(wire.s) >= 2 /\ wire.s[1] = "+"
     /\ ~AnyNonDigit(Tail(wire.s))) => IsErr(ret, InvalidDigits)

\* C30: for every string and either mode the parser returns without
\* panicking: the number that reaches the two expect() calls is in [0, p), and
\* every successful parse returns a field element in [0, p).
C30_NoPanic ==
  DecodedStr =>
     /\ ret.tag \in {"Ok", "Err"}
     /\ IsOk(ret) => ret.val \in 0..(Modulus - 1)

C30_Witness ==
  /\ Unsigned /\ wire = Str(NatToString(Modulus - 1))
  /\ RetIs(Modulus - 1)

(* ======================= properties of the point codec ================= *)
CheckedCall == call \in {"deserialize_g1", "deserialize_g2"}
UncheckedCall == call \in {"deserialize_g1_unchecked", "deserialize_g2_unchecked"}
G1Call == call \in {"deserialize_g1", "deserialize_g1_unchecked"}
G2Call == call \in {"deserialize_g2", "deserialize_g2_unchecked"}
CurveOf == IF G1Call THEN G1Config ELSE G2Config
CurveViolation == IF G1Call THEN G1NotOnCurve ELSE G2NotOnCurve
SubgroupViolation == IF G1Call THEN G1NotInSubgroup ELSE G2NotInSubgroup

\* the wire has the exact shape of a G1 triple or of a G2 triple of pairs
WellShaped ==
  /\ wire.t = "seq"
  /\ Len(wire.e) = 3
  /\ G1Call => G1Shaped
  /\ G2Call => \A i \in 1..3 : IsVecString(wire.e[i]) /\ Len(wire.e[i].e) = 2

\* the coordinate strings of a well-shaped wire, in parsing order
WireStrings ==
  IF G1Call THEN <<wire.e[1].s, wire.e[2].s, wire.e[3].s>>
  ELSE <<wire.e[1].e[1].s, wire.e[1].e[2].s, wire.e[2].e[1].s,
         wire.e[2].e[2].s, wire.e[3].e[1].s, wire.e[3].e[2].s>>

\* every coordinate string is a canonical field string
SyntacticallyValid ==
  WellShaped /\ \A i \in 1..Len(WireStrings) : WireStrings[i] \in CoordStrings

Coord(i) == DigitsValue(WireStrings[i])
\* the affine point the coordinates of a syntactically valid wire denote
WirePoint ==
  IF G1Call THEN into_affine(G1Config, <<Coord(1)>>, <<Coord(2)>>, <<Coord(3)>>)
  ELSE into_affine(G2Config, <<Coord(1), Coord(2)>>, <<Coord(3), Coord(4)>>,
                   <<Coord(5), Coord(6)>>)

OnCurve(p) == is_on_curve(CurveOf, p)
InSubgroup(p) == is_in_correct_subgroup_assuming_on_curve(CurveOf, p)

\* C1: for a syntactically valid triple whose affine point P is not the
\* identity, Checked decode returns P iff P is on the curve and in the
\* subgroup, fails with CurveViolation if P is off the curve and with
\* SubgroupViolation if P is on the curve outside the subgroup; Unchecked
\* decode returns P in every case; so a non-identity point returned by a
\* Checked decode is on the curve and in the subgroup.
C1_Validation ==
  /\ (CheckedCall /\ SyntacticallyValid /\ ~is_zero(WirePoint)) =>
        /\ IsOk(ret) <=> (OnCurve(WirePoint) /\ InSubgroup(WirePoint))
        /\ IsOk(ret) => ret.val = WirePoint
        /\ ~OnCurve(WirePoint) => IsErr(ret, CurveViolation)
        /\ (OnCurve(WirePoint) /\ ~InSubgroup(WirePoint)) => IsErr(ret, SubgroupViolation)
  /\ (UncheckedCall /\ SyntacticallyValid /\ ~is_zero(WirePoint)) =>
        IsOk(ret) /\ ret.val = WirePoint
  /\ (CheckedCall /\ IsOk(ret) /\ ~is_zero(ret.val)) =>
        OnCurve(ret.val) /\ InSubgroup(ret.val)

C1_Witness ==
  /\ call = "deserialize_g2" /\ SyntacticallyValid
  /\ ~is_zero(WirePoint) /\ OnCurve(WirePoint) /\ ~InSubgroup(WirePoint)
  /\ IsErr(ret, G2NotInSubgroup)

\* the identity in its canonical spelling
G1Infinity == G1Wire(NatToString(0), NatToString(1), NatToString(0))
G2Infinity ==
  G2Wire(<<NatToString(0), NatToString(0)>>, <<NatToString(1), NatToString(0)>>,
         <<NatToString(0), NatToString(0)>>)

\* C15: a Checked decode of G1 ["0","1","0"] and of G2
\* [["0","0"],["1","0"],["0","0"]] returns the identity, and returns it before
\* the on-curve test or the subgroup test is evaluated.
C15_Infinity ==
  /\ (call = "deserialize_g1" /\ wire = G1Infinity) =>
        /\ IsOk(ret) /\ ret.val = identity(G1Config)
        /\ ret.checks = <<>>
  /\ (call = "deserialize_g2" /\ wire = G2Infinity) =>
        /\ IsOk(ret) /\ ret.val = identity(G2Config)
        /\ ret.checks = <<>>

C15_Witness ==
  /\ call = "deserialize_g2" /\ wire = G2Infinity
  /\ IsOk(ret) /\ is_zero(ret.val)

\* C16: a G1 triple decodes to the identity only if it is exactly
\* ["0","1","0"].
C16_OnlyCanonicalInfinity ==
  (G1Call /\ WellShaped /\ IsOk(ret) /\ is_zero(ret.val)) => wire = G1Infinity

\* C18: a G1 array with fewer than three strings fails with the message that
\* names the first missing coordinate (x, y, z), one with a fourth element
\* fails with the trailing-element error (length 4), and neither gives a point.
C18_G1Arity ==
  (G1Call /\ G1Shaped) =>
     /\ Len(wire.e) = 0 => IsErr(ret, G1MissingX)
     /\ Len(wire.e) = 1 => IsErr(ret, G1MissingY)
     /\ Len(wire.e) = 2 => IsErr(ret, G1MissingZ)
     /\ Len(wire.e) >= 4 => IsErr(ret, InvalidLength4)
     /\ IsOk(ret) => Len(wire.e) = 3

C18_Witness ==
  /\ call = "deserialize_g1_unchecked" /\ G1Shaped /\ Len(wire.e) = 4
  /\ IsErr(ret, InvalidLength4)

GtCall == call = "deserialize_gt"
G1SeqCall == call \in {"deserialize_g1_seq", "deserialize_g1_seq_unchecked"}

\* the wire is a 2 x 3 x 2 array of strings
GtWellShaped ==
  /\ wire.t = "seq"
  /\ Len(wire.e) = 2
  /\ \A i \in 1..2 :
        /\ IsVecVecString(wire.e[i])
        /\ Len(wire.e[i].e) = 3
        /\ \A j \in 1..3 : Len(wire.e[i].e[j].e) = 2
\* the wire is an array of triples of strings
G1SeqWellShaped ==
  \A i \in 1..Len(wire.e) : IsVecString(wire.e[i]) /\ Len(wire.e[i].e) = 3

\* a decode has returned for a wire of the shape its decoder expects
ShapedDecode ==
  \/ (G1Call \/ G2Call) /\ WellShaped
  \/ GtCall /\ GtWellShaped
  \/ G1SeqCall /\ G1SeqWellShaped

\* the strings of a wire, in the order of the array
RECURSIVE LeafStrings(_)
RECURSIVE LeafStringsOf(_)
LeafStrings(w) == IF w.t = "str" THEN <<w.s>> ELSE LeafStringsOf(w.e)
LeafStringsOf(e) ==
  IF Len(e) = 0 THEN <<>> ELSE LeafStrings(Head(e)) \o LeafStringsOf(Tail(e))

G2Arity(i) == IF i = 1 THEN G2ArityX ELSE IF i = 2 THEN G2ArityY ELSE G2ArityZ
\* spellings of points of the G1 subgroup and of the identity
ValidG1Elements ==
  {G1Wire(<<"0">>, <<"1">>, <<"1">>), G1Wire(<<"0">>, <<"6">>, <<"1">>), G1Infinity}

\* C19: in a G2 array of three coordinate arrays, the first coordinate array
\* whose length is not 2 fails the decode with the arity error that names the
\* coordinate and reports the actual length; in a G1 sequence decode, an
\* element whose coordinate count is not 3 (after elements that decode) fails
\* with the length error reporting the actual count.
C19_Arity ==
  /\ (G2Call /\ wire.t = "seq" /\ Len(wire.e) = 3 /\ \A i \in 1..3 : IsVecString(wire.e[i])) =>
        /\ \A i \in 1..3 :
              (Len(wire.e[i].e) # 2 /\ \A j \in 1..(i - 1) : Len(wire.e[j].e) = 2) =>
                 IsErr(ret, G2Arity(i) \o ToString(Len(wire.e[i].e)))
        /\ IsOk(ret) => \A i \in 1..3 : Len(wire.e[i].e) = 2
  /\ (G1SeqCall /\ \A i \in 1..Len(wire.e) : IsVecString(wire.e[i])) =>
        /\ \A i \in 1..Len(wire.e) :
              (Len(wire.e[i].e) # 3 /\ \A j \in 1..(i - 1) : wire.e[j] \in ValidG1Elements) =>
                 IsErr(ret, InvalidLength(Len(wire.e[i].e)))
        /\ IsOk(ret) => \A i \in 1..Len(wire.e) : Len(wire.e[i].e) = 3

C19_Witness ==
  /\ call = "deserialize_g2" /\ wire.t = "seq" /\ Len(wire.e) = 3
  /\ \A i \in 1..3 : IsVecString(wire.e[i])
  /\ Len(wire.e[1].e) = 2 /\ Len(wire.e[2].e) = 3 /\ Len(wire.e[3].e) = 1
  /\ IsErr(ret, G2ArityY \o ToString(3))

\* C20: the human-readable encoding of a G2 point is
\* [[x0, x1], [y0, y1], ["1", "0"]] for a finite point and
\* [["0","0"],["1","0"],["0","0"]] for the identity.
C20_G2Encoding ==
  (value.t = "g2" /\ wire # NoWire /\ human) =>
     wire = IF value.v.infinity THEN G2Infinity
            ELSE G2Wire(<<NatToString(value.v.x[1]), NatToString(value.v.x[2])>>,
                        <<NatToString(value.v.y[1]), NatToString(value.v.y[2])>>,
                        <<NatToString(1), NatToString(0)>>)

\* C25: deserialize_g1_unchecked and deserialize_g2_unchecked make no validation
\* check: a well-shaped input is never rejected for the form or the range of
\* a coordinate string, nor for the curve or the subgroup, and no curve or
\* subgroup test is evaluated.
C25_NoValidation ==
  (UncheckedCall /\ WellShaped) =>
     /\ ret.tag = "Err" =>
          ret.msg \notin {LeadingPlusSign, NegativeRejected, NonCanonicalZero, LeadingZero,
                          OutOfRange, CurveViolation, SubgroupViolation}
     /\ IsOk(ret) => ret.checks = <<>>

\* the errors that report a deviation from the 2 x 3 x 2 shape
ShapeErrors == {GtMissing, GtNeedThree, ExpectedCubic, ExpectedQuadratic, TrailingCharacters}

\* the elements visit_seq reads are arrays of arrays of strings
GtTyped == wire.t = "seq" /\ \A i \in 1..Len(wire.e) : i <= 2 => IsVecVecString(wire.e[i])

\* the wire has two elements of three elements of two strings
GtExactShape ==
  /\ Len(wire.e) = 2
  /\ \A i \in 1..2 : Len(wire.e[i].e) = 3
  /\ \A i \in 1..2 : \A j \in 1..3 : Len(wire.e[i].e[j].e) = 2

\* C23: the human-readable GT decode accepts exactly the 2 x 3 x 2 shape: an
\* outer array of one or of three elements, a middle array whose length is
\* not 3 and an inner array whose length is not 2 are rejected with a shape
\* error; an input of the exact shape with twelve canonical leaves is accepted.
C23_ExactShape ==
  (GtCall /\ GtTyped) =>
    /\ ~GtExactShape => (ret.tag = "Err" /\ ret.msg \in ShapeErrors)
    /\ (GtExactShape /\ \A i \in 1..12 : LeafStrings(wire)[i] \in CoordStrings) => IsOk(ret)

\* C22: encoding the value decoded from a wire input gives the input again:
\* for a string the field decode accepts that has no sign, and for a G1 triple
\* [x, y, "1"] or ["0","1","0"] the Checked decode accepts; for a signed input
\* "-v" the encoding is the canonical string of p - v, and the unsigned and
\* the signed decode of that string give the element again.
C22_Reencode ==
  /\ (call = "serialize_f" /\ out # NoWire /\ wire.t = "str") =>
        IF StartsWithChar(wire.s, "-")
        THEN /\ out = Str(NatToString(Modulus - DigitsValue(Tail(wire.s))))
             /\ deserialize_f(out) = ret
             /\ deserialize_f_signed(out) = ret
        ELSE out = wire
  /\ (call = "serialize_g1" /\ out # NoWire /\ value = NoValue
        /\ (wire.e[3].s = NatToString(1) \/ wire = G1Infinity)) => out = wire

\* the identity decoded from ["0","1","0"] has been encoded again
C22_Witness ==
  /\ call = "serialize_g1" /\ value = NoValue
  /\ wire = G1Infinity /\ is_zero(ret.val)
  /\ out = G1Infinity

\* a point of the prime-order subgroup, the identity included
ValidPoint(cfg, p) ==
  is_zero(p) \/ (is_on_curve(cfg, p) /\ is_in_correct_subgroup_assuming_on_curve(cfg, p))

\* C21: the Checked decode of the encoding of a valid G1 point, of a valid G2
\* point (the identity included) and of an element of the target field
\* returns the value, in the human-readable and in the binary format.
C21_PointRoundTrip ==
  /\ (value.t = "g1" /\ call = "deserialize_g1" /\ ValidPoint(G1Config, value.v)) =>
        IsOk(ret) /\ ret.val = value.v
  /\ (value.t = "g2" /\ call = "deserialize_g2" /\ ValidPoint(G2Config, value.v)) =>
        IsOk(ret) /\ ret.val = value.v
  /\ (value.t = "gt" /\ call = "deserialize_gt") =>
        IsOk(ret) /\ ret.val = value.v

(* =================== properties of the sequence decoders =============== *)
FSeqCall == call \in {"deserialize_f_seq", "deserialize_f_seq_signed"}

\* the decode of element i of the wire array on its own, by the entry point
\* for one value that matches the sequence entry point called
Single(i) ==
  IF call = "deserialize_f_seq" THEN deserialize_f(wire.e[i])
  ELSE IF call = "deserialize_f_seq_signed" THEN deserialize_f_signed(wire.e[i])
  ELSE IF call = "deserialize_g1_seq" THEN deserialize_g1(wire.e[i])
  ELSE deserialize_g1_unchecked(wire.e[i])

\* the decode of the first k elements of the wire array by the entry point called
PrefixDecode(k) ==
  LET w == SeqOf(SubSeq(wire.e, 1, k)) IN
  IF call = "deserialize_f_seq" THEN deserialize_f_seq(w)
  ELSE IF call = "deserialize_f_seq_signed" THEN deserialize_f_seq_signed(w)
  ELSE IF call = "deserialize_g1_seq" THEN deserialize_g1_seq(w)
  ELSE deserialize_g1_seq_unchecked(w)

\* the elements of the wire array that fail on their own
Failing == {i \in 1..Len(wire.e) : ~IsOk(Single(i))}

\* C27: a human-readable sequence decode (field sequences, G1 sequences)
\* succeeds exactly when every element decodes on its own, and then returns a
\* list as long as the input whose element i is the decode of input i (the
\* empty array gives the empty list); otherwise it fails, with the result it
\* has on the input cut after the lowest failing element.
C27_SequenceLaw ==
  ((FSeqCall \/ G1SeqCall) /\ wire.t = "seq" /\ (FSeqCall => G1Shaped)) =>
    IF Failing = {}
    THEN /\ IsOk(ret)
         /\ Len(ret.val) = Len(wire.e)
         /\ \A i \in 1..Len(wire.e) : ret.val[i] = Single(i).val
    ELSE /\ ret.tag = "Err"
         /\ LET k == CHOOSE i \in Failing : \A j \in Failing : i <= j
            IN /\ ret = PrefixDecode(k)
               /\ FSeqCall => ret = Single(k)

\* a G1 sequence of MaxSeq points is decoded to MaxSeq points
C27_Witness ==
  /\ call = "deserialize_g1_seq" /\ Len(wire.e) = 2
  /\ IsOk(ret) /\ Len(ret.val) = 2
  /\ ret.val[1] # ret.val[2]

\* a G1 triple whose coordinate i is the string b, the others being "1"
OneBadCoordinate(i, b) ==
  StrArray([j \in 1..3 |-> IF j = i THEN b ELSE NatToString(1)])

\* C28: a decode error tells which coordinate or element failed and of which
\* kind the failure is: the same rejected spelling at two different
\* coordinates of a G1 triple gives two different errors, and a failing G1
\* sequence reports the error of its lowest failing element.
C28_Locatable ==
  /\ \A i \in 1..3 : \A b \in BadCoordStrings :
       (call = "deserialize_g1" /\ wire = OneBadCoordinate(i, b)) =>
          \A j \in (1..3) \ {i} : ret # deserialize_g1(OneBadCoordinate(j, b))
  /\ (call = "deserialize_g1_seq" /\ (\A i \in 1..Len(wire.e) : IsVecString(wire.e[i]))
        /\ Failing # {}) =>
       LET k == CHOOSE i \in Failing : \A j \in Failing : i <= j
       IN ret.tag = "Err" /\ ret.msg = Single(k).msg

(* ======================= properties of the curve modules =============== *)
\* the wire is an array of exactly n strings
StringArrayOf(n) ==
  wire.t = "seq" /\ Len(wire.e) = n /\ \A i \in 1..n : wire.e[i].t = "str"

\* a point the twisted Edwards decoder has to accept: the identity or a point
\* of the curve in the prime-order subgroup
EdwardsValid(p) ==
  te_is_zero(p) \/ (te_is_on_curve(p) /\ te_is_in_correct_subgroup_assuming_on_curve(p))

\* C24: every encode entry point, the module functions included, writes the
\* compressed bytes exactly when the format is not human-readable, and every
\* decode entry point reads back the valid value the encoder of its type has
\* written, in either format
C24_FormatDispatch ==
  /\ (value # NoValue /\ wire # NoWire) => (wire.t = "bytes" <=> ~human)
  /\ (value.t = "f" /\ call = "babyjubjub::deserialize_babyjubjub_fq") =>
        IsOk(ret) /\ ret.val = value.v
  /\ (value.t = "fr" /\ call = "babyjubjub::deserialize_babyjubjub_fr") =>
        IsOk(ret) /\ ret.val = value.v
  /\ (value.t = "te" /\ call = "babyjubjub::deserialize_babyjubjub_affine"
        /\ EdwardsValid(value.v)) => IsOk(ret) /\ ret.val = value.v
  /\ (value.t = "g1" /\ call \in {"bn254::deserialize_g1", "deserialize_g1"}
        /\ ValidPoint(G1Config, value.v)) => IsOk(ret) /\ ret.val = value.v

\* C26: the decoders of the curve modules accept a coordinate string exactly
\* when the canonical unsigned parser accepts it, with the same value, and the
\* twisted Edwards decoder accepts exactly the identity and the points of the
\* curve in the subgroup
C26_CanonicalCoordinates ==
  /\ (call = "babyjubjub::deserialize_babyjubjub_fq" /\ wire.t = "str") =>
        LET c == parse_field_str_inner_unsigned(wire.s) IN
        /\ IsOk(c) => IsOk(ret)
        /\ IsOk(ret) => (IsOk(c) /\ ret.val = c.val)
  /\ (call = "bn254::deserialize_g1" /\ StringArrayOf(3)) =>
        LET g == deserialize_g1(wire) IN
        /\ IsOk(g) => IsOk(ret)
        /\ IsOk(ret) => (IsOk(g) /\ ret.val = g.val)
  /\ (call = "babyjubjub::deserialize_babyjubjub_affine" /\ StringArrayOf(2)) =>
        LET c == ParseAllUnsigned(<<wire.e[1].s, wire.e[2].s>>) IN
        /\ (IF IsOk(c) THEN EdwardsValid(EdwardsAffine(c.val[1], c.val[2])) ELSE FALSE)
              => IsOk(ret)
        /\ IsOk(ret) => (IsOk(c) /\ ret.val = EdwardsAffine(c.val[1], c.val[2]))

====
